---- MODULE Spec2Model ----
(***************************************************************************)
(* IrisVault: the iris biometric engine (backend/biometric_engine.py).     *)
(*                                                                         *)
(* Python values are tagged records: None, an ndarray (float32 elements    *)
(* held as the 32-bit words that tobytes()/frombuffer() move), a str (a    *)
(* sequence of character codes) and a dict.  A library call that can       *)
(* raise returns either Ok(v) or Raise(e); every try/except of the source  *)
(* is the place where a Raise is turned into the handler's result.         *)
(*                                                                         *)
(* Library code that is not part of the repository is modelled by what it  *)
(* does: base64 by its 6-bit arithmetic and CPython's lenient decoder,     *)
(* PKCS#7 by pycryptodome's pad/unpad, CBC by its chaining.  The AES block *)
(* permutation itself is abstracted to a keyed bijection on 16-byte        *)
(* blocks (AddRoundKey followed by a byte rotation).                       *)
(***************************************************************************)
EXTENDS Integers, Sequences, FiniteSets, TLC

VARIABLES
    key_hash,   \* IrisBiometricEngine.key_hash, set by __init__
    blob,       \* the caller's stored/received template blob (a str or None)
    origin,     \* how blob came to be: who encrypted it, from what, what was done to it
    frames,     \* the frame batch of the request being served
    m_a, m_b,   \* the two templates handed to match_templates
    m_log,      \* results of match_templates on (m_a, m_b), by threshold
    op,         \* the engine operation that ran last
    ret,        \* what it returned (or Raise(..) if it raised)
    work,       \* the frames the last operation passed to preprocess_frame
    earlier,    \* an earlier call on the same batch in another order, and its result
    calls,      \* the calls threads have under way on the one engine, by call id
    users,          \* db.users: the user documents, in insertion order
    biometrics,     \* db.biometrics: the template documents, in insertion order
    transactions,   \* db.transactions: the transaction documents, in insertion order
    audit_logs,     \* db.audit_logs: what log_audit inserted, in insertion order
    reqs,           \* the HTTP requests the server is handling, by request id
    np_random,      \* the state of numpy's global RandomState (np.random)
    generated,      \* first image generate returned, by (width, height, seed)
    last_generated, \* the last call of generate: its arguments and its image
    image,          \* the grayscale image handed to detect_iris_region
    patch,          \* what detect_iris_region returned for it
    measured,        \* what the extractors measure on the patch handed to extract_features
    feature_vector  \* what extract_features returned for it

\* what a single caller's requests use
request_vars == <<blob, origin, frames, m_a, m_b, m_log, op, ret, work, earlier>>
\* what concurrent callers of the engine use
call_vars == <<calls>>
\* the server's collections
server_vars == <<users, biometrics, transactions, audit_logs, reqs>>

\* what SyntheticIrisGenerator uses
generator_vars == <<np_random, generated, last_generated>>

\* what the image-level reading of detect_iris_region uses
image_vars == <<image, patch, measured, feature_vector>>

vars == <<key_hash, request_vars, call_vars, server_vars, generator_vars, image_vars>>

----------------------------------------------------------------------------
(* Python values *)

None == [tag |-> "None"]
Arr(s) == [tag |-> "ndarray", data |-> s]
Str(s) == [tag |-> "str", chars |-> s]
Ok(v) == [tag |-> "ok", val |-> v]
Raise(e) == [tag |-> "raise", error |-> e]

IsRaise(r) == r.tag = "raise"
\* one statement of a try block after another: an exception ends the block
Then(r, rest(_)) == IF IsRaise(r) THEN r ELSE rest(r.val)

Min(a, b) == IF a < b THEN a ELSE b
Max(a, b) == IF a > b THEN a ELSE b

\* s[lo:hi] of Python, for 0 <= lo
Slice(s, lo, hi) == SubSeq(s, lo + 1, Min(hi, Len(s)))

RECURSIVE Pow(_, _)
Pow(b, e) == IF e = 0 THEN 1 ELSE b * Pow(b, e - 1)

RECURSIVE SumSeq(_)
SumSeq(s) ==
    IF Len(s) = 0 THEN 0
    ELSE IF Len(s) = 1 THEN s[1]
    ELSE LET half == Len(s) \div 2
         IN  SumSeq(SubSeq(s, 1, half)) + SumSeq(SubSeq(s, half + 1, Len(s)))

RECURSIVE SeqsUpTo(_, _)
\* all sequences over S of length at most n
SeqsUpTo(S, n) ==
    IF n = 0 THEN {<<>>}
    ELSE LET shorter == SeqsUpTo(S, n - 1)
         IN  shorter \cup {Append(s, x) : s \in {t \in shorter : Len(t) = n - 1}, x \in S}

----------------------------------------------------------------------------
(* Program constants *)

AES_block_size == 16     \* Crypto.Cipher.AES.block_size
IV_LEN == 16             \* get_random_bytes(16), encrypted_data[:16]
FLOAT32_SIZE == 4        \* itemsize of dtype float32
KEY_LEN == 32            \* digest()[:32]

DEFAULT_SECRET == "default_key_32bytes_change_me!!"
OTHER_SECRET == "another_deployment_secret"
Secrets == {DEFAULT_SECRET, OTHER_SECRET}

----------------------------------------------------------------------------
(* Bounds of the model *)

MaxLen == 3        \* longest template (number of float32 elements)
MaxIvSeed == 1     \* IVs drawn by get_random_bytes are IvOf(0..MaxIvSeed)

MaxDim == 2        \* longest template handed to match_templates
MaxFrames == 4     \* most frames in one request
SCALE == 100       \* resolution of the fixed-point reading of a float: 1.0 is SCALE
MANT == 7          \* significant bits a float keeps (24 in float32, 53 in float64)
MaxCalls == 2      \* calls under way at once on the one engine
MaxRequests == 2   \* requests the server is handling at once

\* float32 elements of the templates handed to encrypt_template, as 32-bit words
WordVals == {1000, -16909060}
Templates == SeqsUpTo(WordVals, MaxLen)

\* elements of the templates handed to match_templates: 0.0, 0.15 and 1.0
ElemVals == {0, 15, 100}
Vectors == SeqsUpTo(ElemVals, MaxDim)

----------------------------------------------------------------------------
(* bytes: numpy tobytes / frombuffer *)

\* A float32 element is held as its 32-bit word, read as a signed fixed-point
\* number (two's complement, units of 1/SCALE), so that it stays in TLC's
\* integer range.

\* ndarray.tobytes() of a float32 array: 4 bytes per element, little-endian
tobytes(a) ==
    [i \in 1..(FLOAT32_SIZE * Len(a)) |->
        (a[((i - 1) \div FLOAT32_SIZE) + 1] \div Pow(256, (i - 1) % FLOAT32_SIZE)) % 256]

\* the element whose little-endian bytes are b[1..4]
word_of(b) ==
    b[1] + 256 * b[2] + 65536 * b[3]
    + 16777216 * (IF b[4] >= 128 THEN b[4] - 256 ELSE b[4])

\* np.frombuffer(b, dtype='float32'): raises unless len(b) is a multiple of 4
frombuffer(b) ==
    IF Len(b) % FLOAT32_SIZE # 0
    THEN Raise("ValueError: buffer size must be a multiple of element size")
    ELSE Ok([j \in 1..(Len(b) \div FLOAT32_SIZE) |->
                word_of(SubSeq(b, FLOAT32_SIZE * (j - 1) + 1, FLOAT32_SIZE * j))])

----------------------------------------------------------------------------
(* base64: characters are alphabet indices 0..63, B64_PAD is '=', and      *)
(* B64_JUNK stands for any character outside the alphabet ('!', '-', ...)  *)

B64_PAD == 64
B64_JUNK == 65

\* base64.b64encode(b): each group of 3 bytes gives 4 characters; a last group
\* of 1 or 2 bytes is filled up with '='
b64encode(b) ==
    LET n == Len(b)
        byte(j) == IF j <= n THEN b[j] ELSE 0
    IN  [i \in 1..(4 * ((n + 2) \div 3)) |->
            LET g == (i - 1) \div 4
                b1 == byte(3 * g + 1)
                b2 == byte(3 * g + 2)
                b3 == byte(3 * g + 3)
            IN  CASE (i - 1) % 4 = 0 -> b1 \div 4
                  [] (i - 1) % 4 = 1 -> (b1 % 4) * 16 + (b2 \div 16)
                  [] (i - 1) % 4 = 2 -> IF 3 * g + 2 > n THEN B64_PAD
                                        ELSE (b2 % 16) * 4 + (b3 \div 64)
                  [] (i - 1) % 4 = 3 -> IF 3 * g + 3 > n THEN B64_PAD
                                        ELSE b3 % 64]

\* One character of binascii.a2b_base64 in non-strict mode.
\* st = [q: quad_pos, left: leftchar, pads, out, done]
a2b_step(st, ch) ==
    IF st.done THEN st
    ELSE IF ch = B64_PAD THEN
        IF st.q >= 2
        THEN IF st.q + st.pads + 1 >= 4
             THEN [st EXCEPT !.pads = st.pads + 1, !.done = TRUE]
             ELSE [st EXCEPT !.pads = st.pads + 1]
        ELSE st
    ELSE IF ch > B64_PAD THEN st
    ELSE CASE st.q = 0 -> [st EXCEPT !.q = 1, !.left = ch, !.pads = 0]
           [] st.q = 1 -> [st EXCEPT !.q = 2, !.left = ch % 16, !.pads = 0,
                              !.out = Append(st.out, st.left * 4 + (ch \div 16))]
           [] st.q = 2 -> [st EXCEPT !.q = 3, !.left = ch % 4, !.pads = 0,
                              !.out = Append(st.out, st.left * 16 + (ch \div 4))]
           [] st.q = 3 -> [st EXCEPT !.q = 0, !.left = 0, !.pads = 0,
                              !.out = Append(st.out, st.left * 64 + ch)]

RECURSIVE a2b_range(_, _, _, _)
\* the decoder loop run over s[lo..hi], left to right
a2b_range(st, s, lo, hi) ==
    IF lo > hi THEN st
    ELSE IF lo = hi THEN a2b_step(st, s[lo])
    ELSE LET mid == (lo + hi) \div 2
             left == a2b_range(st, s, lo, mid)
         IN  IF left.done THEN left ELSE a2b_range(left, s, mid + 1, hi)

a2b_fold(st, s) == a2b_range(st, s, 1, Len(s))

\* base64.b64decode(s) with validate=False: characters outside the alphabet
\* are discarded, decoding stops at a completed pad sequence, and a trailing
\* incomplete quad raises binascii.Error.  A non-str argument raises TypeError.
b64decode(s) ==
    IF s.tag # "str" THEN Raise("TypeError")
    ELSE LET st == a2b_fold([q |-> 0, left |-> 0, pads |-> 0, out |-> <<>>, done |-> FALSE],
                            s.chars)
         IN  IF st.done \/ st.q = 0 THEN Ok(st.out)
             ELSE Raise("binascii.Error: Incorrect padding")

----------------------------------------------------------------------------
(* Crypto.Util.Padding *)

pad(data, bs) ==
    LET n == bs - (Len(data) % bs) IN data \o [i \in 1..n |-> n]

unpad(data, bs) ==
    IF Len(data) = 0 THEN Raise("ValueError: Zero-length input cannot be unpadded")
    ELSE IF Len(data) % bs # 0 THEN Raise("ValueError: Input data is not padded")
    ELSE LET n == data[Len(data)] IN
         IF n < 1 \/ n > Min(bs, Len(data)) THEN Raise("ValueError: Padding is incorrect.")
         ELSE IF \E i \in (Len(data) - n + 1)..Len(data) : data[i] # n
              THEN Raise("ValueError: PKCS#7 padding is incorrect.")
              ELSE Ok(SubSeq(data, 1, Len(data) - n))

----------------------------------------------------------------------------
(* hashlib / Crypto.Cipher.AES in CBC mode *)

\* hashlib.sha256(secret.encode()).digest(): a fixed 32-byte value per secret
sha256(secret) ==
    [i \in 1..KEY_LEN |-> IF secret = DEFAULT_SECRET THEN 43 ELSE 47]

RECURSIVE xor_bits(_, _, _)
xor_bits(a, b, n) ==
    IF n = 0 THEN 0 ELSE ((a + b) % 2) + 2 * xor_bits(a \div 2, b \div 2, n - 1)

strxor(a, b) == [i \in 1..Len(a) |-> xor_bits(a[i], b[i], 8)]

\* The block permutation under key k, and its inverse.
AES_encrypt_block(k, blk) ==
    LET x == strxor(blk, SubSeq(k, 1, AES_block_size))
    IN  [i \in 1..AES_block_size |-> x[(i % AES_block_size) + 1]]

AES_decrypt_block(k, blk) ==
    LET x == [i \in 1..AES_block_size |-> blk[((i + AES_block_size - 2) % AES_block_size) + 1]]
    IN  strxor(x, SubSeq(k, 1, AES_block_size))

RECURSIVE cbc_encrypt(_, _, _)
\* cipher.encrypt(data): C_i = E_k(P_i xor C_{i-1}), C_0 = iv
cbc_encrypt(k, prev, data) ==
    IF Len(data) = 0 THEN <<>>
    ELSE LET c == AES_encrypt_block(k, strxor(SubSeq(data, 1, AES_block_size), prev))
         IN  c \o cbc_encrypt(k, c, SubSeq(data, AES_block_size + 1, Len(data)))

RECURSIVE cbc_decrypt(_, _, _)
\* cipher.decrypt(data): P_i = D_k(C_i) xor C_{i-1}
cbc_decrypt(k, prev, data) ==
    IF Len(data) = 0 THEN <<>>
    ELSE LET c == SubSeq(data, 1, AES_block_size)
         IN  strxor(AES_decrypt_block(k, c), prev)
             \o cbc_decrypt(k, c, SubSeq(data, AES_block_size + 1, Len(data)))

\* AES.new(key, AES.MODE_CBC, iv).encrypt(data)
AES_CBC_encrypt(k, iv, data) ==
    IF Len(iv) # IV_LEN THEN Raise("ValueError: Incorrect IV length")
    ELSE IF Len(data) % AES_block_size # 0
         THEN Raise("ValueError: Data must be padded to 16 byte boundary in CBC mode")
         ELSE Ok(cbc_encrypt(k, iv, data))

\* AES.new(key, AES.MODE_CBC, iv).decrypt(data)
AES_CBC_decrypt(k, iv, data) ==
    IF Len(iv) # IV_LEN THEN Raise("ValueError: Incorrect IV length")
    ELSE IF Len(data) % AES_block_size # 0
         THEN Raise("ValueError: Data must be padded to 16 byte boundary in CBC mode")
         ELSE Ok(cbc_decrypt(k, iv, data))

\* the values get_random_bytes(16) is drawn from
IvOf(s) == [i \in 1..IV_LEN |-> (s * (16 * i + 5)) % 256]
IVs == {IvOf(s) : s \in 0..MaxIvSeed}

----------------------------------------------------------------------------
(* IrisBiometricEngine: the envelope *)

\* encrypt_template(self, template_data), with iv the bytes get_random_bytes drew
encrypt_template(k, template_data, iv) ==
    IF template_data.tag # "dict" THEN None        \* subscripting raises: except -> None
    ELSE LET template_bytes == tobytes(template_data.template.data)
             enc == AES_CBC_encrypt(k, iv, pad(template_bytes, AES_block_size))
         IN  IF IsRaise(enc) THEN None
             ELSE Str(b64encode(iv \o enc.val))

\* the try block of decrypt_template with an all-zero IV in place of the
\* stored one
decrypt_template_body_zero_iv(k, encrypted_b64) ==
    Then(b64decode(encrypted_b64), LAMBDA encrypted_data :
    Then(AES_CBC_decrypt(k, [i \in 1..IV_LEN |-> 0],
                         SubSeq(encrypted_data, IV_LEN + 1, Len(encrypted_data))),
         LAMBDA padded :
    Then(unpad(padded, AES_block_size), LAMBDA decrypted :
    Then(frombuffer(decrypted), LAMBDA template : Ok(Arr(template))))))

\* decrypt_template(self, encrypted_b64), without the try/except
decrypt_template_body(k, encrypted_b64) ==
    Then(b64decode(encrypted_b64), LAMBDA encrypted_data :
    Then(AES_CBC_decrypt(k, Slice(encrypted_data, 0, IV_LEN),
                         SubSeq(encrypted_data, IV_LEN + 1, Len(encrypted_data))),
         LAMBDA padded :
    Then(unpad(padded, AES_block_size), LAMBDA decrypted :
    Then(frombuffer(decrypted), LAMBDA template : Ok(Arr(template))))))

\* except Exception: return None
except_return_none(r) == IF IsRaise(r) THEN None ELSE r.val

\* decrypt_template(self, encrypted_b64): any exception is logged and None returned
decrypt_template(k, encrypted_b64) ==
    except_return_none(decrypt_template_body(k, encrypted_b64))

----------------------------------------------------------------------------
(* Floating point: a float is NaN or a fixed-point number of units 1/SCALE *)

F(v) == [nan |-> FALSE, v |-> v]
NaN == [nan |-> TRUE, v |-> 0]

\* x < y of IEEE floats: false when either side is NaN
FLt(x, y) == ~x.nan /\ ~y.nan /\ x.v < y.v
FGt(x, y) == ~x.nan /\ ~y.nan /\ x.v > y.v
FLe(x, y) == ~x.nan /\ ~y.nan /\ x.v <= y.v
FSub(x, y) == IF x.nan \/ y.nan THEN NaN ELSE F(x.v - y.v)
FAdd(x, y) == IF x.nan \/ y.nan THEN NaN ELSE F(x.v + y.v)
\* x / y for x, y in units 1/SCALE, y >= 0: 0/0 is NaN
FDiv(x, y) ==
    IF x.nan \/ y.nan \/ (x.v = 0 /\ y.v = 0) THEN NaN
    ELSE F((x.v * SCALE) \div y.v)
FHalf(x) == IF x.nan THEN NaN ELSE F(x.v \div 2)
\* np.clip(x, lo, hi)
FClip(x, lo, hi) == IF x.nan THEN NaN ELSE F(Max(lo, Min(hi, x.v)))

RECURSIVE isqrt_search(_, _, _)
isqrt_search(n, lo, hi) ==
    IF lo >= hi THEN lo
    ELSE LET mid == (lo + hi + 1) \div 2
         IN  IF mid * mid <= n THEN isqrt_search(n, mid, hi)
             ELSE isqrt_search(n, lo, mid - 1)

\* floor of the square root
isqrt(n) == isqrt_search(n, 0, Min(n, 46340))

\* np.dot(u, v) of two 1-D arrays, in units 1/SCALE^2
dot(u, v) == SumSeq([i \in 1..Len(u) |-> u[i] * v[i]])

\* np.linalg.norm(u), in units 1/SCALE
linalg_norm(u) == isqrt(dot(u, u))

\* np.sqrt(n) of an integer n, in units 1/SCALE
sqrt_len(n) == isqrt(n * SCALE * SCALE)

\* cosine with element-wise products that broadcast a length-1 operand
\* instead of np.dot, so that a length mismatch goes unnoticed
cosine_broadcast(u, v) ==
    IF Len(u) # Len(v) /\ Len(u) # 1 /\ Len(v) # 1
    THEN Raise("ValueError: operands could not be broadcast together")
    ELSE LET n == IF Len(u) = 1 THEN Len(v) ELSE Len(u)
             ub == [i \in 1..n |-> IF Len(u) = 1 THEN u[1] ELSE u[i]]
             vb == [i \in 1..n |-> IF Len(v) = 1 THEN v[1] ELSE v[i]]
             uv == dot(ub, vb)
             uu == dot(ub, ub)
             vv == dot(vb, vb)
             ratio == IF uu * vv = 0 THEN NaN
                      ELSE F((uv * SCALE) \div isqrt(uu * vv))
         IN  Ok(FClip(FSub(F(SCALE), ratio), 0, 2 * SCALE))

\* cosine without the division by the norms
cosine_unnormalised(u, v) ==
    IF Len(u) # Len(v) THEN Raise("ValueError: shapes not aligned")
    ELSE Ok(FClip(FSub(F(SCALE), F(dot(u, v) \div SCALE)), 0, 2 * SCALE))

\* scipy.spatial.distance.cosine(u, v): np.dot raises on arrays of different
\* lengths; the distance 1 - uv/sqrt(uu*vv) is clipped to [0, 2]
cosine(u, v) ==
    IF Len(u) # Len(v) THEN Raise("ValueError: shapes not aligned")
    ELSE LET uv == dot(u, v)
             uu == dot(u, u)
             vv == dot(v, v)
             ratio == IF uu * vv = 0 THEN NaN
                      ELSE F((uv * SCALE) \div isqrt(uu * vv))
         IN  Ok(FClip(FSub(F(SCALE), ratio), 0, 2 * SCALE))

\* template1 - template2 with numpy broadcasting of a length-1 operand
ndarray_sub(u, v) ==
    IF Len(u) = Len(v) THEN Ok([i \in 1..Len(u) |-> u[i] - v[i]])
    ELSE IF Len(u) = 1 THEN Ok([i \in 1..Len(v) |-> u[1] - v[i]])
    ELSE IF Len(v) = 1 THEN Ok([i \in 1..Len(u) |-> u[i] - v[1]])
    ELSE Raise("ValueError: operands could not be broadcast together")

----------------------------------------------------------------------------
(* IrisBiometricEngine: the matcher *)

\* threshold=0.15
DEFAULT_THRESHOLD == (15 * SCALE) \div 100

\* the decision with <= in place of <
match_decision_le(normalized_distance, threshold) ==
    ~normalized_distance.nan /\ normalized_distance.v <= threshold

\* the decision with the comparison turned round
match_decision_gt(normalized_distance, threshold) ==
    FGt(normalized_distance, F(threshold))

\* the match decision of line 338
match_decision(normalized_distance, threshold) ==
    FLt(normalized_distance, F(threshold))

\* the sum of the two scores, not halved
match_confidence_sum(similarity, normalized_distance) ==
    FAdd(similarity, FSub(F(SCALE), normalized_distance))

\* the combined score of line 335
match_confidence(similarity, normalized_distance) ==
    FHalf(FAdd(similarity, FSub(F(SCALE), normalized_distance)))

\* if isinstance(template, str): template = self.decrypt_template(template)
decrypt_if_str(k, template) ==
    IF template.tag = "str" THEN decrypt_template(k, template) ELSE template

\* the result dict of lines 340-345
match_result(similarity, normalized_distance, threshold) ==
    Ok([match |-> match_decision(normalized_distance, threshold),
        confidence |-> match_confidence(similarity, normalized_distance),
        distance |-> normalized_distance,
        similarity |-> similarity])

\* lines 324-345, on the two templates after decryption
compare_templates(template1, template2, threshold) ==
    IF template1 = None \/ template2 = None
    THEN Ok([match |-> FALSE, confidence |-> F(0), error |-> "Decryption failed"])
    ELSE Then(cosine(template1.data, template2.data), LAMBDA cos :
         Then(ndarray_sub(template1.data, template2.data), LAMBDA diff :
              match_result(FSub(F(SCALE), cos),
                           FDiv(F(linalg_norm(diff)), F(sqrt_len(Len(template1.data)))),
                           threshold)))

\* match_templates(self, template1, template2, threshold), without the try/except
match_templates_body(k, template1, template2, threshold) ==
    compare_templates(decrypt_if_str(k, template1), decrypt_if_str(k, template2),
                      threshold)

\* except Exception as e: return {'match': False, 'confidence': 0.0, 'error': str(e)}
except_return_error(r) ==
    IF IsRaise(r) THEN [match |-> FALSE, confidence |-> F(0), error |-> r.error]
    ELSE r.val

\* match_templates: an exception becomes a non-match carrying str(e)
match_templates(k, template1, template2, threshold) ==
    except_return_error(match_templates_body(k, template1, template2, threshold))

----------------------------------------------------------------------------
(* Frames.  What OpenCV and scikit-image make of a frame is a property of   *)
(* the frame: whether it decodes, whether a patch is found, the feature     *)
(* vector extracted from the patch (or None), the patch's quality score     *)
(* (units 1/SCALE) and its mean brightness.                                 *)

Frame(dec, reg, feat, q, b) ==
    [decodes |-> dec, region |-> reg, features |-> feat, quality |-> q, brightness |-> b]

FRAME_UNDECODABLE == Frame(FALSE, FALSE, None, 0, 0)
FRAME_NO_REGION   == Frame(TRUE, FALSE, None, 0, 0)
FRAME_NO_FEATURES == Frame(TRUE, TRUE, None, 60, 104)

FrameInputs ==
    { FRAME_UNDECODABLE, FRAME_NO_REGION, FRAME_NO_FEATURES,
      Frame(TRUE, TRUE, Arr(<<100, 0>>), 50, 100),
      Frame(TRUE, TRUE, Arr(<<60, 80>>), 55, 102),
      Frame(TRUE, TRUE, Arr(<<0, 100>>), 60, 104),
      Frame(TRUE, TRUE, Arr(<<100, 0>>), 60, 100),
      Frame(TRUE, TRUE, Arr(<<60, 80>>), 50, 104) }

\* preprocess_frame(image_data): the denoised grayscale image, or None on any
\* decoding error
preprocess_frame(image_data) ==
    IF image_data.decodes THEN [tag |-> "gray", of |-> image_data] ELSE None

\* detect_iris_region(preprocessed_img): the 128x128 patch, or None
detect_iris_region(preprocessed_img) ==
    IF preprocessed_img.of.region THEN [tag |-> "patch", of |-> preprocessed_img.of]
    ELSE None

\* extract_features(iris_region): the feature vector, or None
extract_features(iris_region) ==
    IF iris_region = None THEN None ELSE iris_region.of.features

\* _calculate_quality(iris_region)
calculate_quality(iris_region) == iris_region.of.quality

\* iris_region.mean()
patch_mean(iris_region) == iris_region.of.brightness

----------------------------------------------------------------------------
(* numpy statistics.  A float keeps MANT significant bits: every addition of *)
(* a running sum is rounded to nearest, ties to even, as IEEE 754 does.      *)

RECURSIVE ulp(_, _)
\* the spacing of the floats around the magnitude a
ulp(a, unit) == IF a < Pow(2, MANT) * unit THEN unit ELSE ulp(a, 2 * unit)

\* round to nearest, ties to even, of a non-negative magnitude
round_magnitude(a) ==
    LET unit == ulp(a, 1)
        q == a \div unit
        r == a % unit
    IN  IF 2 * r > unit \/ (2 * r = unit /\ q % 2 = 1) THEN (q + 1) * unit
        ELSE q * unit

\* the float nearest to x
float_round(x) == IF x < 0 THEN 0 - round_magnitude(0 - x) ELSE round_magnitude(x)

RECURSIVE add_reduce(_, _)
\* np.add.reduce over fewer than 8 items: one rounded addition after another,
\* in the order of the items
add_reduce(acc, xs) ==
    IF xs = <<>> THEN acc
    ELSE add_reduce(float_round(acc + Head(xs)), Tail(xs))

\* np.sum(xs)
np_sum(xs) == add_reduce(0, xs)

\* np.mean(xs) of scalars in fixed point
np_mean(xs) == np_sum(xs) \div Len(xs)

\* the first vector in place of the mean of all
np_mean_axis0_first(vs) == vs[1]

\* np.mean(vs, axis=0) of equally long vectors
np_mean_axis0(vs) ==
    [i \in 1..Len(vs[1]) |-> np_sum([j \in 1..Len(vs) |-> vs[j][i]]) \div Len(vs)]

\* np.var(xs) = mean(|x - mean(x)|^2), kept as the fraction num/den:
\* with n = len(xs), x - mean(x) = (n*x - sum(xs)) / n
np_var(xs) ==
    LET n == Len(xs)
        total == np_sum(xs)
    IN  [num |-> np_sum([i \in 1..n |->
                     float_round((n * xs[i] - total) * (n * xs[i] - total))]),
         den |-> n * n * n]

----------------------------------------------------------------------------
(* IrisBiometricEngine: template fusion *)

RECURSIVE create_template_loop_quality_first(_, _, _)
\* the loop with the quality score taken before the features are checked
create_template_loop_quality_first(rest, feature_vectors, quality_scores) ==
    IF rest = <<>> THEN [feature_vectors |-> feature_vectors,
                         quality_scores |-> quality_scores]
    ELSE LET preprocessed == preprocess_frame(Head(rest)) IN
         IF preprocessed = None
         THEN create_template_loop_quality_first(Tail(rest), feature_vectors, quality_scores)
         ELSE LET iris_region == detect_iris_region(preprocessed) IN
              IF iris_region = None
              THEN create_template_loop_quality_first(Tail(rest), feature_vectors,
                                                      quality_scores)
              ELSE LET features == extract_features(iris_region)
                       qs == Append(quality_scores, calculate_quality(iris_region))
                   IN  IF features # None
                       THEN create_template_loop_quality_first(Tail(rest),
                                Append(feature_vectors, features.data), qs)
                       ELSE create_template_loop_quality_first(Tail(rest),
                                feature_vectors, qs)

RECURSIVE create_template_loop(_, _, _)
\* the for loop of create_template over the remaining frames
create_template_loop(rest, feature_vectors, quality_scores) ==
    IF rest = <<>> THEN [feature_vectors |-> feature_vectors,
                         quality_scores |-> quality_scores]
    ELSE LET preprocessed == preprocess_frame(Head(rest)) IN
         IF preprocessed = None
         THEN create_template_loop(Tail(rest), feature_vectors, quality_scores)
         ELSE LET iris_region == detect_iris_region(preprocessed) IN
              IF iris_region = None
              THEN create_template_loop(Tail(rest), feature_vectors, quality_scores)
              ELSE LET features == extract_features(iris_region) IN
                   IF features # None
                   THEN create_template_loop(Tail(rest),
                            Append(feature_vectors, features.data),
                            Append(quality_scores, calculate_quality(iris_region)))
                   ELSE create_template_loop(Tail(rest), feature_vectors, quality_scores)

\* create_template(self, frames)
create_template(frms) ==
    LET acc == create_template_loop(frms, <<>>, <<>>) IN
    IF Len(acc.feature_vectors) = 0 THEN None
    ELSE [tag |-> "dict",
          template |-> Arr(np_mean_axis0(acc.feature_vectors)),
          quality_score |-> np_mean(acc.quality_scores),
          num_frames |-> Len(acc.feature_vectors)]

----------------------------------------------------------------------------
(* IrisBiometricEngine: liveness *)

MIN_FRAMES == 3     \* len(frames) < 3, len(quality_scores) < 3

\* the guard with the minimum off by one
insufficient_frames_lt2(frms) == Len(frms) < MIN_FRAMES - 1

\* the minimum-frame guard of line 358
insufficient_frames(frms) == Len(frms) < MIN_FRAMES

RECURSIVE check_liveness_loop_break(_, _, _)
\* the loop leaving at the first frame that fails, instead of skipping it
check_liveness_loop_break(rest, quality_scores, brightness_values) ==
    IF rest = <<>> THEN [quality_scores |-> quality_scores,
                         brightness_values |-> brightness_values]
    ELSE LET preprocessed == preprocess_frame(Head(rest)) IN
         IF preprocessed = None
         THEN [quality_scores |-> quality_scores, brightness_values |-> brightness_values]
         ELSE LET iris_region == detect_iris_region(preprocessed) IN
              IF iris_region # None
              THEN check_liveness_loop_break(Tail(rest),
                       Append(quality_scores, calculate_quality(iris_region)),
                       Append(brightness_values, patch_mean(iris_region)))
              ELSE [quality_scores |-> quality_scores,
                    brightness_values |-> brightness_values]

RECURSIVE check_liveness_loop(_, _, _)
\* the for loop of check_liveness over the remaining frames
check_liveness_loop(rest, quality_scores, brightness_values) ==
    IF rest = <<>> THEN [quality_scores |-> quality_scores,
                         brightness_values |-> brightness_values]
    ELSE LET preprocessed == preprocess_frame(Head(rest)) IN
         IF preprocessed = None
         THEN check_liveness_loop(Tail(rest), quality_scores, brightness_values)
         ELSE LET iris_region == detect_iris_region(preprocessed) IN
              IF iris_region # None
              THEN check_liveness_loop(Tail(rest),
                       Append(quality_scores, calculate_quality(iris_region)),
                       Append(brightness_values, patch_mean(iris_region)))
              ELSE check_liveness_loop(Tail(rest), quality_scores, brightness_values)

\* quality_variance > 0.001, for scores in units 1/SCALE
quality_varies(qv) == qv.num * 1000 > qv.den * SCALE * SCALE

\* brightness_variance > 1.0
brightness_varies(bv) == bv.num > bv.den

\* min(1.0, (quality_variance * 100 + brightness_variance / 10) / 2), as a fraction
liveness_confidence(qv, bv) ==
    LET num == qv.num * 1000 + bv.num * SCALE * SCALE
        den == qv.den * 20 * SCALE * SCALE
    IN  IF num >= den THEN [num |-> 1, den |-> 1] ELSE [num |-> num, den |-> den]

\* the rule with `or` in place of `and`
liveness_rule_or(qv, bv) == quality_varies(qv) \/ brightness_varies(bv)

\* the live detection rule of line 383
liveness_rule(qv, bv) == quality_varies(qv) /\ brightness_varies(bv)

\* check_liveness(self, frames): the result, and the frames it handed to
\* preprocess_frame
check_liveness(frms) ==
    IF insufficient_frames(frms)
    THEN [result |-> [is_live |-> FALSE, reason |-> "Insufficient frames"],
          processed |-> <<>>]
    ELSE LET acc == check_liveness_loop(frms, <<>>, <<>>) IN
         IF Len(acc.quality_scores) < MIN_FRAMES
         THEN [result |-> [is_live |-> FALSE, reason |-> "Failed to process frames"],
               processed |-> frms]
         ELSE LET quality_variance == np_var(acc.quality_scores)
                  brightness_variance == np_var(acc.brightness_values)
              IN  [result |->
                     [is_live |-> liveness_rule(quality_variance, brightness_variance),
                      quality_variance |-> quality_variance,
                      brightness_variance |-> brightness_variance,
                      confidence |-> liveness_confidence(quality_variance,
                                                         brightness_variance)],
                   processed |-> frms]

----------------------------------------------------------------------------
(* State machine *)

Dict(t) == [tag |-> "dict", template |-> Arr(t)]

\* the spec's corrupt-ciphertext scenario: "not-valid-base64!!!"
NOT_VALID_BASE64 ==
    Str(<<39, 40, 45, B64_JUNK, 47, 26, 37, 34, 29, B64_JUNK, 27, 26, 44, 30, 58, 56,
          B64_JUNK, B64_JUNK, B64_JUNK>>)

NoOrigin == [by |-> "none", template |-> <<>>, iv |-> <<>>, edit |-> "none"]
NoEarlier == [op |-> "none", frames |-> <<>>, ret |-> None]
CallIds == 1..MaxCalls
ReqIds == 1..MaxRequests
NOT_IMPORTED == 0 - 1
PyInt(v) == [tag |-> "int", v |-> v]
Widths == {2, 3}
Heights == {2}
Seeds == {PyInt(0), PyInt(1)}
SeededArgs == Widths \X Heights \X Seeds
NoGenerate == [width |-> 0, height |-> 0, seed |-> None, image |-> None, again |-> FALSE]
NoRequest == [pc |-> "idle", route |-> "none", request |-> None, locals |-> None,
              response |-> None]
NoCall == [pc |-> "idle", op |-> "none", arg |-> None, k |-> <<>>, result |-> None,
           overlapped |-> FALSE]

\* __init__ with no encryption_key argument and no BIOMETRIC_KEY in the
\* environment: key_hash = sha256(default).digest()[:32]
Init ==
    /\ key_hash = sha256(DEFAULT_SECRET)
    /\ blob = NOT_VALID_BASE64
    /\ origin = NoOrigin
    /\ frames = <<>>
    /\ m_a = None
    /\ m_b = None
    /\ m_log = <<>>
    /\ op = "init"
    /\ ret = None
    /\ work = <<>>
    /\ earlier = NoEarlier
    /\ calls = [c \in CallIds |-> NoCall]
    /\ users = <<>>
    /\ biometrics = <<>>
    /\ transactions = <<>>
    /\ audit_logs = <<>>
    /\ reqs = [r \in ReqIds |-> NoRequest]
    /\ np_random = NOT_IMPORTED
    /\ generated = [a \in SeededArgs |-> None]
    /\ last_generated = NoGenerate
    /\ image = None
    /\ patch = None
    /\ measured = None
    /\ feature_vector = None

\* One envelope is followed per behaviour: the engine encrypts a template and
\* the caller stores the blob
EncryptTemplate ==
    \E t \in Templates, iv \in IVs :
        /\ origin.by = "none"
        /\ op' = "encrypt_template"
        /\ ret' = encrypt_template(key_hash, Dict(t), iv)
        /\ blob' = ret'
        /\ origin' = [by |-> "self", template |-> t, iv |-> iv, edit |-> "none"]
        /\ UNCHANGED <<image_vars, call_vars, server_vars, generator_vars, key_hash, earlier, frames, m_a, m_b, m_log, work>>

\* the caller holds a blob written by an engine constructed with another secret
ForeignBlob ==
    \E s \in Secrets, t \in Templates, iv \in IVs :
        /\ origin.by = "none"
        /\ sha256(s) # key_hash
        /\ op' = "store"
        /\ ret' = None
        /\ blob' = encrypt_template(sha256(s), Dict(t), iv)
        /\ origin' = [by |-> "other", template |-> t, iv |-> iv, edit |-> "none"]
        /\ UNCHANGED <<image_vars, call_vars, server_vars, generator_vars, key_hash, earlier, frames, m_a, m_b, m_log, work>>

\* the stored text is cut short
TruncateBlob ==
    /\ origin.by # "none" /\ origin.edit = "none"
    /\ \E n \in 0..(Len(blob.chars) - 1) :
        blob' = Str(SubSeq(blob.chars, 1, n))
    /\ origin' = [origin EXCEPT !.edit = "truncate"]
    /\ op' = "store"
    /\ ret' = None
    /\ UNCHANGED <<image_vars, call_vars, server_vars, generator_vars, key_hash, earlier, frames, m_a, m_b, m_log, work>>

\* a character outside the base64 alphabet gets into the stored text
JunkInBlob ==
    /\ origin.by # "none" /\ origin.edit = "none"
    /\ \E n \in 0..Len(blob.chars) :
        blob' = Str(SubSeq(blob.chars, 1, n) \o <<B64_JUNK>>
                    \o SubSeq(blob.chars, n + 1, Len(blob.chars)))
    /\ origin' = [origin EXCEPT !.edit = "junk"]
    /\ op' = "store"
    /\ ret' = None
    /\ UNCHANGED <<image_vars, call_vars, server_vars, generator_vars, key_hash, earlier, frames, m_a, m_b, m_log, work>>

\* one byte of the stored IV or ciphertext is changed
CorruptBlob ==
    /\ origin.by # "none" /\ origin.edit = "none"
    /\ LET raw == b64decode(blob).val IN
       \E i \in 1..Len(raw), d \in {1} :
        blob' = Str(b64encode([raw EXCEPT ![i] = (raw[i] + d) % 256]))
    /\ origin' = [origin EXCEPT !.edit = "corrupt"]
    /\ op' = "store"
    /\ ret' = None
    /\ UNCHANGED <<image_vars, call_vars, server_vars, generator_vars, key_hash, earlier, frames, m_a, m_b, m_log, work>>

DecryptTemplate ==
    /\ op # "decrypt_template"
    /\ op' = "decrypt_template"
    /\ ret' = decrypt_template(key_hash, blob)
    /\ UNCHANGED <<image_vars, call_vars, server_vars, generator_vars, key_hash, earlier, blob, origin, frames, m_a, m_b, m_log, work>>

\* A verification attempt: the caller picks the two arguments of
\* match_templates.  Either may be None, an array, or a str: a blob of this
\* engine, a blob cut short, or text that is not base64.
\* the vectors handed over as blobs: those without a zero element
BlobVectors == {v \in Vectors : \A i \in 1..Len(v) : v[i] # 0}
OwnBlob(v) == encrypt_template(key_hash, Dict(v), IvOf(1))
CutBlob(v) == Str(SubSeq(OwnBlob(v).chars, 1, 24))

ChooseTemplates ==
    /\ op = "init"
    /\ m_a' \in {None, NOT_VALID_BASE64}
                \cup {Arr(v) : v \in Vectors}
                \cup {OwnBlob(v) : v \in BlobVectors}
                \cup {CutBlob(<<>>)}
    /\ m_b' \in {None, NOT_VALID_BASE64} \cup {Arr(v) : v \in Vectors}
    /\ m_log' = <<>>
    /\ op' = "request"
    /\ ret' = None
    /\ UNCHANGED <<image_vars, call_vars, server_vars, generator_vars, key_hash, earlier, blob, origin, frames, work>>

Thresholds == {(10 * SCALE) \div 100, DEFAULT_THRESHOLD, (30 * SCALE) \div 100}

MatchTemplates ==
    /\ op \in {"request", "match_templates"}
    /\ \E threshold \in Thresholds \ DOMAIN m_log :
        LET r == match_templates(key_hash, m_a, m_b, threshold) IN
        /\ ret' = r
        /\ m_log' = [t \in DOMAIN m_log \cup {threshold} |->
                        IF t = threshold THEN r ELSE m_log[t]]
    /\ op' = "match_templates"
    /\ UNCHANGED <<image_vars, call_vars, server_vars, generator_vars, key_hash, earlier, blob, origin, frames, m_a, m_b, work>>

NextMatcher ==
    \/ ChooseTemplates
    \/ MatchTemplates

SpecMatcher == Init /\ [][NextMatcher]_vars

\* The client adds a captured frame to the request.
CaptureFrom(inputs) ==
    /\ op \in {"init", "capture"}
    /\ Len(frames) < MaxFrames
    /\ \E f \in inputs : frames' = Append(frames, f)
    /\ op' = "capture"
    /\ ret' = None
    /\ work' = <<>>
    /\ UNCHANGED <<image_vars, call_vars, server_vars, generator_vars, key_hash, earlier, blob, origin, m_a, m_b, m_log>>

CaptureFrame == CaptureFrom(FrameInputs)

CheckLiveness ==
    /\ op \in {"init", "capture"} \/ (op = "resubmit" /\ earlier.op = "check_liveness")
    /\ op' = "check_liveness"
    /\ ret' = check_liveness(frames).result
    /\ work' = check_liveness(frames).processed
    /\ UNCHANGED <<image_vars, call_vars, server_vars, generator_vars, key_hash, earlier, blob, origin, frames, m_a, m_b, m_log>>

CreateTemplate ==
    /\ op \in {"init", "capture"} \/ (op = "resubmit" /\ earlier.op = "create_template")
    /\ op' = "create_template"
    /\ ret' = create_template(frames)
    /\ work' = frames
    /\ UNCHANGED <<image_vars, call_vars, server_vars, generator_vars, key_hash, earlier, blob, origin, frames, m_a, m_b, m_log>>

NextFrames ==
    \/ CaptureFrame
    \/ CheckLiveness
    \/ CreateTemplate

SpecFrames == Init /\ [][NextFrames]_vars

\* the frames of the reordering runs: one that fails and three survivors
ReorderInputs ==
    { FRAME_UNDECODABLE,
      Frame(TRUE, TRUE, Arr(<<100, 0>>), 50, 100),
      Frame(TRUE, TRUE, Arr(<<60, 80>>), 55, 102),
      Frame(TRUE, TRUE, Arr(<<0, 100>>), 60, 104) }

CaptureVaried == CaptureFrom(ReorderInputs)

\* the frames of batch in the order p gives
Reordered(batch, p) == [i \in 1..Len(batch) |-> batch[p[i]]]

\* The client sends the batch of the call just served again, in another order.
ResubmitReordered ==
    /\ op \in {"check_liveness", "create_template"}
    /\ earlier = NoEarlier
    /\ \E p \in Permutations(1..Len(frames)) :
        /\ Reordered(frames, p) # frames
        /\ frames' = Reordered(frames, p)
    /\ earlier' = [op |-> op, frames |-> frames, ret |-> ret]
    /\ op' = "resubmit"
    /\ ret' = None
    /\ work' = <<>>
    /\ UNCHANGED <<image_vars, call_vars, server_vars, generator_vars, key_hash, blob, origin, m_a, m_b, m_log>>

NextReorder ==
    \/ CaptureVaried
    \/ CheckLiveness
    \/ CreateTemplate
    \/ ResubmitReordered

SpecReorder == Init /\ [][NextReorder]_vars

\* Concurrent calls on the one engine.  A call is a thread inside a method of
\* IrisBiometricEngine: it reads self.key_hash where the method does (AES.new),
\* works on its locals and returns.
EngineOps ==
    {"preprocess_frame", "detect_iris_region", "extract_features", "create_template",
     "encrypt_template", "decrypt_template", "match_templates", "check_liveness"}

\* the methods that read self.key_hash
ReadsKey(o) == o \in {"encrypt_template", "decrypt_template", "match_templates"}

CallFrame == Frame(TRUE, TRUE, Arr(<<60, 80>>), 55, 102)
CallBatch == <<Frame(TRUE, TRUE, Arr(<<100, 0>>), 50, 100), CallFrame,
               Frame(TRUE, TRUE, Arr(<<0, 100>>), 60, 104)>>
DefaultBlob(v) == encrypt_template(sha256(DEFAULT_SECRET), Dict(v), IvOf(1))

\* the arguments the callers pass
CallArgs(o) ==
    CASE o = "preprocess_frame" -> {CallFrame, FRAME_UNDECODABLE}
      [] o = "detect_iris_region" -> {preprocess_frame(CallFrame)}
      [] o = "extract_features" -> {detect_iris_region(preprocess_frame(CallFrame))}
      [] o = "create_template" -> {CallBatch}
      [] o = "check_liveness" -> {CallBatch}
      [] o = "encrypt_template" -> {[template |-> <<1000>>, iv |-> IvOf(1)]}
      [] o = "decrypt_template" -> {DefaultBlob(<<1000>>), NOT_VALID_BASE64}
      [] o = "match_templates" ->
             {[template1 |-> DefaultBlob(<<100, 15>>), template2 |-> Arr(<<100, 15>>)]}

\* the method o run with key k on argument arg (iv: the bytes it draws)
Apply(o, k, arg) ==
    CASE o = "preprocess_frame" -> preprocess_frame(arg)
      [] o = "detect_iris_region" -> detect_iris_region(arg)
      [] o = "extract_features" -> extract_features(arg)
      [] o = "create_template" -> create_template(arg)
      [] o = "check_liveness" -> check_liveness(arg).result
      [] o = "encrypt_template" -> encrypt_template(k, Dict(arg.template), arg.iv)
      [] o = "decrypt_template" -> decrypt_template(k, arg)
      [] o = "match_templates" ->
             match_templates(k, arg.template1, arg.template2, DEFAULT_THRESHOLD)

\* a method that stores a key of its own in self.key_hash
engine_state_after_rekey(o, k) ==
    IF o = "encrypt_template" THEN sha256(OTHER_SECRET) ELSE k

\* self after a method ran: no method but __init__ assigns to an attribute
engine_state_after(o, k) == k

\* a thread enters a method
CallBegin(c) ==
    /\ calls[c].pc = "idle"
    /\ \E o \in EngineOps : \E a \in CallArgs(o) :
        calls' = [calls EXCEPT ![c] = [NoCall EXCEPT !.pc = "running", !.op = o, !.arg = a]]
    /\ UNCHANGED <<image_vars, key_hash, request_vars, server_vars, generator_vars>>

\* AES.new(self.key_hash, ...): the method reads the key
CallReadKey(c) ==
    /\ calls[c].pc = "running" /\ ReadsKey(calls[c].op)
    /\ calls' = [calls EXCEPT ![c].pc = "keyed", ![c].k = key_hash]
    /\ UNCHANGED <<image_vars, key_hash, request_vars, server_vars, generator_vars>>

\* the method returns
CallReturn(c) ==
    /\ \/ calls[c].pc = "keyed"
       \/ calls[c].pc = "running" /\ ~ReadsKey(calls[c].op)
    /\ calls' = [calls EXCEPT
                  ![c].pc = "done",
                  ![c].result = Apply(calls[c].op, calls[c].k, calls[c].arg),
                  ![c].overlapped = \E d \in CallIds \ {c} :
                                        calls[d].pc \in {"running", "keyed"}]
    /\ key_hash' = engine_state_after(calls[c].op, key_hash)
    /\ UNCHANGED <<image_vars, request_vars, server_vars, generator_vars>>

NextCalls ==
    \E c \in CallIds :
        \/ CallBegin(c)
        \/ CallReadKey(c)
        \/ CallReturn(c)

SpecCalls == Init /\ [][NextCalls]_vars

----------------------------------------------------------------------------
(* SyntheticIrisGenerator.  np.random is one generator for the process: a
   state, a seeding and a step.  The state is read here as a residue modulo
   RK_MOD and the step as a linear congruence; a draw is taken from the new
   state. *)

RK_MOD == 16
RK_MUL == 5
RK_INC == 3

rk_seed(seed) == (seed.v * 7 + 2) % RK_MOD
rk_step(st) == (st * RK_MUL + RK_INC) % RK_MOD

\* np.random.randint(low, high): the next state and a value in low..high-1
randint(st, low, high) ==
    [st |-> rk_step(st), val |-> low + (rk_step(st) % (high - low))]

\* iris_color: three draws
iris_color(st) ==
    LET b == randint(st, 50, 150)
        g == randint(b.st, 80, 160)
        r == randint(g.st, 100, 180)
    IN  [st |-> r.st, val |-> <<b.val, g.val, r.val>>]

\* one small circle of the radial pattern: four draws, folded into the image
furrow(acc, angle, r) ==
    LET dx == randint(acc.st, 0 - 2, 2)
        dy == randint(dx.st, 0 - 2, 2)
        thickness == randint(dy.st, 1, 2)
        shade == randint(thickness.st, 0 - 30, 30)
    IN  [st |-> shade.st,
         val |-> (7 * acc.val + angle + r + (dx.val + 2) + 5 * (dy.val + 2)
                    + 25 * thickness.val + (shade.val + 30)) % 251]

\* for r in range(30, 80, 5)
RECURSIVE furrow_radii(_, _, _)
furrow_radii(acc, angle, r) ==
    IF r >= 80 THEN acc
    ELSE LET drawn == furrow(acc, angle, r)
         IN  IF drawn.st >= 0 THEN furrow_radii(drawn, angle, r + 5) ELSE drawn

\* for angle in range(0, 360, 15), angles lo..hi of them
RECURSIVE furrow_angles(_, _, _)
furrow_angles(acc, lo, hi) ==
    IF lo = hi THEN furrow_radii(acc, 15 * lo, 30)
    ELSE LET mid == (lo + hi) \div 2
             left == furrow_angles(acc, lo, mid)
         IN  IF left.st >= 0 THEN furrow_angles(left, mid + 1, hi) ELSE left

\* np.random.randint(0, 20, (height, width, 3)): entries lo..hi, folded
RECURSIVE noise(_, _, _)
noise(acc, lo, hi) ==
    IF lo > hi THEN acc
    ELSE IF lo = hi
    THEN LET d == randint(acc.st, 0, 20)
         IN  [st |-> d.st, val |-> (3 * acc.val + d.val) % 251]
    ELSE LET mid == (lo + hi) \div 2
             left == noise(acc, lo, mid)
         IN  IF left.st >= 0 THEN noise(left, mid + 1, hi) ELSE left

\* the radial pattern drawn from each generator state
furrows == [st \in 0..RK_MOD - 1 |-> furrow_angles([st |-> st, val |-> 0], 0, 23)]

\* the body of generate after the seeding, from generator state st
generate_image(st, width, height) ==
    LET colour == iris_color(st)
        texture == furrows[colour.st]
        grain == noise([st |-> texture.st, val |-> 0], 1, height * width * 3)
    IN  [st |-> grain.st,
         val |-> [tag |-> "jpeg", width |-> width, height |-> height,
                  iris_color |-> colour.val, texture |-> texture.val,
                  noise |-> grain.val]]

\* a guard that takes seed 0 for no seed
seeded_state_if_truthy(st, seed) ==
    IF seed # None /\ seed # PyInt(0) THEN rk_seed(seed) ELSE st

\* if seed is not None: np.random.seed(seed)
seeded_state(st, seed) == IF seed # None THEN rk_seed(seed) ELSE st

\* generate(width, height, seed) from generator state st
generate(st, width, height, seed) ==
    generate_image(seeded_state(st, seed), width, height)


\* numpy is imported: the global generator is seeded from the system's entropy
ImportNumpy ==
    /\ np_random = NOT_IMPORTED
    /\ np_random' \in 0..RK_MOD - 1
    /\ UNCHANGED <<image_vars, key_hash, request_vars, call_vars, server_vars, generated,
                   last_generated>>

\* a call of generate
Generate ==
    /\ np_random # NOT_IMPORTED
    /\ \E width \in Widths : \E height \in Heights : \E seed \in Seeds \cup {None} :
        LET g == generate(np_random, width, height, seed)
        IN  /\ np_random' = g.st
            /\ last_generated' =
                   [width |-> width, height |-> height, seed |-> seed, image |-> g.val,
                    again |-> seed # None /\ generated[<<width, height, seed>>] # None]
            /\ generated' =
                   IF seed # None /\ generated[<<width, height, seed>>] = None
                   THEN [generated EXCEPT ![<<width, height, seed>>] = g.val]
                   ELSE generated
    /\ UNCHANGED <<image_vars, key_hash, request_vars, call_vars, server_vars>>

\* a call of an engine method between two calls of generate
EngineCallBetween ==
    /\ np_random # NOT_IMPORTED
    /\ \E o \in EngineOps : \E a \in CallArgs(o) :
        /\ op' = o
        /\ ret' = Apply(o, key_hash, a)
    /\ UNCHANGED <<image_vars, key_hash, blob, origin, frames, m_a, m_b, m_log, work, earlier,
                   call_vars, server_vars, generator_vars>>

NextGenerator ==
    \/ ImportNumpy
    \/ Generate
    \/ EngineCallBetween

SpecGenerator == Init /\ [][NextGenerator]_vars

----------------------------------------------------------------------------
(* The server.  A request handler is a coroutine: it runs from one await to
   the next without interruption, and other handlers may run at each await.
   Each database call is one step. *)

INITIAL_BALANCE == 10000     \* User.balance default

\* three frames of one eye with the quality and brightness of a live capture
LiveBatch(v) ==
    <<Frame(TRUE, TRUE, Arr(v), 50, 100), Frame(TRUE, TRUE, Arr(v), 55, 102),
      Frame(TRUE, TRUE, Arr(v), 60, 104)>>
\* the same frame three times
StillBatch(v) ==
    <<Frame(TRUE, TRUE, Arr(v), 50, 100), Frame(TRUE, TRUE, Arr(v), 50, 100),
      Frame(TRUE, TRUE, Arr(v), 50, 100)>>
\* a live capture whose patches give no feature vector
FeaturelessBatch ==
    <<Frame(TRUE, TRUE, None, 50, 100), Frame(TRUE, TRUE, None, 55, 102),
      Frame(TRUE, TRUE, None, 60, 104)>>
\* two frames
ShortBatch(v) == SubSeq(LiveBatch(v), 1, 2)

EYE_1 == <<100, 15>>
EYE_2 == <<15, 100>>

EnrollRequests ==
    { [route |-> "enroll", account_number |-> "1001", consent |-> TRUE, frames |-> LiveBatch(EYE_1)],
      [route |-> "enroll", account_number |-> "1001", consent |-> TRUE, frames |-> LiveBatch(EYE_2)],
      [route |-> "enroll", account_number |-> "1001", consent |-> FALSE, frames |-> LiveBatch(EYE_1)],
      [route |-> "enroll", account_number |-> "1001", consent |-> TRUE, frames |-> ShortBatch(EYE_1)],
      [route |-> "enroll", account_number |-> "1001", consent |-> TRUE, frames |-> StillBatch(EYE_1)],
      [route |-> "enroll", account_number |-> "1001", consent |-> TRUE, frames |-> FeaturelessBatch],
      [route |-> "enroll", account_number |-> "1002", consent |-> TRUE, frames |-> LiveBatch(EYE_2)] }

find_one(collection, account_number) ==
    IF \E i \in 1..Len(collection) : collection[i].account_number = account_number
    THEN collection[CHOOSE i \in 1..Len(collection) :
                      /\ collection[i].account_number = account_number
                      /\ \A j \in 1..i - 1 : collection[j].account_number # account_number]
    ELSE None

HTTPException(status_code, detail) ==
    [status_code |-> status_code, success |-> FALSE, match |-> FALSE, detail |-> detail]

log_audit(action, account_number, success) ==
    [action |-> action, account_number |-> account_number, success |-> success]

\* a handler finishes with a response
Respond(r, response) ==
    reqs' = [reqs EXCEPT ![r].pc = "done", ![r].response = response]
\* a handler goes on to its next await, with its locals
Await(r, pc, locals) ==
    reqs' = [reqs EXCEPT ![r].pc = pc, ![r].locals = locals]
At(r, route, pc) == reqs[r].pc = pc /\ reqs[r].route = route
InFlight == {q \in ReqIds : reqs[q].pc \notin {"idle", "done"}}
\* request ids are given in the order of arrival; the server has two workers
Arrives(r) ==
    /\ reqs[r].pc = "idle"
    /\ \A q \in 1..r - 1 : reqs[q].pc # "idle"
    /\ Cardinality(InFlight) < 2

\* the enrollments with consent and a live capture
LiveEnrollRequests ==
    {request \in EnrollRequests :
        request.consent /\ \E v \in {EYE_1, EYE_2} : request.frames = LiveBatch(v)}

\* POST /enroll arrives
ReceiveEnrollFrom(r, requests) ==
    /\ Arrives(r)
    /\ \E request \in requests :
        reqs' = [reqs EXCEPT ![r].pc = "find_user", ![r].route = "enroll",
                             ![r].request = request]
    /\ UNCHANGED <<image_vars, key_hash, request_vars, call_vars, generator_vars,
                   users, biometrics, transactions, audit_logs>>

\* enroll_user after encrypt_template returned
enroll_store(encrypted_template) ==
    IF encrypted_template = None
    THEN [to |-> "raise", response |-> HTTPException(500, "Encryption failed")]
    ELSE [to |-> "insert_user", encrypted_template |-> encrypted_template]

\* the IV get_random_bytes gives an enrollment
EnrollIVs == {IvOf(1)}

\* enroll_user from the consent check to the next await, given what find_one
\* returned and the IV encrypt_template draws
enroll_checks(existing, request, iv, k) ==
    IF ~request.consent
    THEN [to |-> "raise", response |-> HTTPException(400, "Biometric consent required")]
    ELSE IF existing # None
    THEN [to |-> "raise", response |-> HTTPException(400, "Account already enrolled")]
    ELSE IF Len(request.frames) < 3
    THEN [to |-> "raise", response |-> HTTPException(400, "Minimum 3 frames required")]
    ELSE IF ~check_liveness(request.frames).result.is_live
    THEN [to |-> "log_failed", response |-> HTTPException(400, "Liveness check failed")]
    ELSE IF create_template(request.frames) = None
    THEN [to |-> "log_failed",
          response |-> HTTPException(400, "Failed to create biometric template")]
    ELSE enroll_store(encrypt_template(k, create_template(request.frames), iv))

\* existing = await db.users.find_one(...), and on to the next await
EnrollFindUser(r) ==
    /\ At(r, "enroll", "find_user")
    /\ \E iv \in EnrollIVs :
        LET checked == enroll_checks(find_one(users, reqs[r].request.account_number),
                                     reqs[r].request, iv, key_hash)
        IN  IF checked.to = "raise" THEN Respond(r, checked.response)
            ELSE Await(r, checked.to, checked)
    /\ UNCHANGED <<image_vars, key_hash, request_vars, call_vars, generator_vars,
                   users, biometrics, transactions, audit_logs>>

\* await log_audit("enrollment_failed", ...); raise
EnrollLogFailed(r) ==
    /\ At(r, "enroll", "log_failed")
    /\ audit_logs' = Append(audit_logs,
           log_audit("enrollment_failed", reqs[r].request.account_number, FALSE))
    /\ Respond(r, reqs[r].locals.response)
    /\ UNCHANGED <<image_vars, key_hash, request_vars, call_vars, generator_vars,
                   users, biometrics, transactions>>

\* await db.users.insert_one(user_doc); the user's id is the request's
EnrollInsertUser(r) ==
    /\ At(r, "enroll", "insert_user")
    /\ users' = Append(users, [id |-> r, account_number |-> reqs[r].request.account_number,
                               balance |-> F(INITIAL_BALANCE)])
    /\ Await(r, "insert_bio", reqs[r].locals)
    /\ UNCHANGED <<image_vars, key_hash, request_vars, call_vars, generator_vars,
                   biometrics, transactions, audit_logs>>

\* await db.biometrics.insert_one(bio_doc)
EnrollInsertBio(r) ==
    /\ At(r, "enroll", "insert_bio")
    /\ biometrics' = Append(biometrics,
           [user_id |-> r, account_number |-> reqs[r].request.account_number,
            template_blob |-> reqs[r].locals.encrypted_template])
    /\ Await(r, "log_success", reqs[r].locals)
    /\ UNCHANGED <<image_vars, key_hash, request_vars, call_vars, generator_vars,
                   users, transactions, audit_logs>>

\* await log_audit("enrollment_success", ...); return
EnrollLogSuccess(r) ==
    /\ At(r, "enroll", "log_success")
    /\ audit_logs' = Append(audit_logs,
           log_audit("enrollment_success", reqs[r].request.account_number, TRUE))
    /\ Respond(r, [status_code |-> 200, success |-> TRUE, match |-> FALSE,
                   detail |-> "Enrollment successful"])
    /\ UNCHANGED <<image_vars, key_hash, request_vars, call_vars, generator_vars,
                   users, biometrics, transactions>>

ReceiveEnroll(r) == ReceiveEnrollFrom(r, EnrollRequests)
ReceiveLiveEnroll(r) == ReceiveEnrollFrom(r, LiveEnrollRequests)

EnrollSteps(r) ==
    \/ EnrollFindUser(r)
    \/ EnrollLogFailed(r)
    \/ EnrollInsertUser(r)
    \/ EnrollInsertBio(r)
    \/ EnrollLogSuccess(r)

Enroll(r) ==
    \/ ReceiveEnroll(r)
    \/ EnrollSteps(r)

NextEnroll == \E r \in ReqIds : Enroll(r)

SpecEnroll == Init /\ [][NextEnroll]_vars

\* await db.users.insert_one(user_doc) raises (the store cannot be reached):
\* except Exception as e: raise HTTPException(status_code=500, detail=str(e))
EnrollInsertUserFails(r) ==
    /\ At(r, "enroll", "insert_user")
    /\ Respond(r, HTTPException(500, "insert_one failed"))
    /\ UNCHANGED <<image_vars, key_hash, request_vars, call_vars, generator_vars,
                   users, biometrics, transactions, audit_logs>>

\* await db.biometrics.insert_one(bio_doc) raises, after the user was inserted
EnrollInsertBioFails(r) ==
    /\ At(r, "enroll", "insert_bio")
    /\ Respond(r, HTTPException(500, "insert_one failed"))
    /\ UNCHANGED <<image_vars, key_hash, request_vars, call_vars, generator_vars,
                   users, biometrics, transactions, audit_logs>>

\* enrollments against a store whose writes can fail
NextEnrollWrites ==
    \E r \in ReqIds :
        \/ Enroll(r)
        \/ EnrollInsertUserFails(r)
        \/ EnrollInsertBioFails(r)

SpecEnrollWrites == Init /\ [][NextEnrollWrites]_vars

VerifyRequests ==
    { [route |-> "verify", account_number |-> "1001", frames |-> LiveBatch(EYE_1)],
      [route |-> "verify", account_number |-> "1001", frames |-> LiveBatch(EYE_2)],
      [route |-> "verify", account_number |-> "1001", frames |-> ShortBatch(EYE_1)],
      [route |-> "verify", account_number |-> "1001", frames |-> <<>>],
      [route |-> "verify", account_number |-> "1001", frames |-> StillBatch(EYE_1)],
      [route |-> "verify", account_number |-> "1001", frames |-> FeaturelessBatch],
      [route |-> "verify", account_number |-> "1002", frames |-> LiveBatch(EYE_2)] }

\* POST /verify arrives
ReceiveVerify(r) ==
    /\ Arrives(r)
    /\ \E request \in VerifyRequests :
        reqs' = [reqs EXCEPT ![r].pc = "find_user", ![r].route = "verify",
                             ![r].request = request]
    /\ UNCHANGED <<image_vars, key_hash, request_vars, call_vars, generator_vars,
                   users, biometrics, transactions, audit_logs>>

\* user = await db.users.find_one(...)
VerifyFindUser(r) ==
    /\ At(r, "verify", "find_user")
    /\ LET user == find_one(users, reqs[r].request.account_number)
       IN  IF user = None
           THEN Await(r, "log", [event_type |-> "verification_failed",
                                 raise |-> TRUE,
                                 response |-> HTTPException(404, "Account not found")])
           ELSE Await(r, "find_bio", [user |-> user])
    /\ UNCHANGED <<image_vars, key_hash, request_vars, call_vars, generator_vars,
                   users, biometrics, transactions, audit_logs>>

denial(reason) ==
    [status_code |-> 200, success |-> FALSE, match |-> FALSE, detail |-> reason]

\* match_templates(bio_template['template_blob'], verify_template_data['template'])
\* and what verify_user makes of the result
verify_match(bio_template, request, k) ==
    LET matched == match_templates(k, bio_template.template_blob,
                                        create_template(request.frames).template,
                                        DEFAULT_THRESHOLD)
    IN  IF matched.match
        THEN [to |-> "log", event_type |-> "verification_success", raise |-> FALSE,
              bio_template |-> bio_template,
              response |-> [status_code |-> 200, success |-> TRUE, match |-> TRUE,
                            detail |-> ""]]
        ELSE [to |-> "log", event_type |-> "verification_failed", raise |-> FALSE,
              bio_template |-> bio_template,
              response |-> denial("Biometric match failed")]

\* a verification that goes on to the match whatever check_liveness said
verify_checks_any_liveness(bio_template, request, k) ==
    IF bio_template = None
    THEN [to |-> "raise", response |-> HTTPException(404, "Biometric template not found")]
    ELSE IF Len(request.frames) < 2
    THEN [to |-> "raise", response |-> HTTPException(400, "Minimum 2 frames required")]
    ELSE IF create_template(request.frames) = None
    THEN [to |-> "log", event_type |-> "verification_failed", raise |-> FALSE,
          bio_template |-> bio_template, response |-> denial("Failed to process frames")]
    ELSE verify_match(bio_template, request, k)

\* verify_user from the template lookup to the next await, given what find_one
\* returned
verify_checks(bio_template, request, k) ==
    IF bio_template = None
    THEN [to |-> "raise", response |-> HTTPException(404, "Biometric template not found")]
    ELSE IF Len(request.frames) < 2
    THEN [to |-> "raise", response |-> HTTPException(400, "Minimum 2 frames required")]
    ELSE IF ~check_liveness(request.frames).result.is_live
    THEN [to |-> "log", event_type |-> "verification_failed", raise |-> FALSE,
          bio_template |-> bio_template, response |-> denial("Liveness check failed")]
    ELSE IF create_template(request.frames) = None
    THEN [to |-> "log", event_type |-> "verification_failed", raise |-> FALSE,
          bio_template |-> bio_template, response |-> denial("Failed to process frames")]
    ELSE verify_match(bio_template, request, k)

\* bio_template = await db.biometrics.find_one(...), and on to the next await
VerifyFindBio(r) ==
    /\ At(r, "verify", "find_bio")
    /\ LET checked == verify_checks(find_one(biometrics, reqs[r].request.account_number),
                                    reqs[r].request, key_hash)
       IN  IF checked.to = "raise" THEN Respond(r, checked.response)
           ELSE Await(r, "log", checked)
    /\ UNCHANGED <<image_vars, key_hash, request_vars, call_vars, generator_vars,
                   users, biometrics, transactions, audit_logs>>

\* await log_audit(...); return or raise
VerifyLog(r) ==
    /\ At(r, "verify", "log")
    /\ audit_logs' = Append(audit_logs,
           log_audit(reqs[r].locals.event_type, reqs[r].request.account_number,
                     reqs[r].locals.response.success))
    /\ Respond(r, reqs[r].locals.response)
    /\ UNCHANGED <<image_vars, key_hash, request_vars, call_vars, generator_vars,
                   users, biometrics, transactions>>

Verify(r) ==
    \/ ReceiveVerify(r)
    \/ VerifyFindUser(r)
    \/ VerifyFindBio(r)
    \/ VerifyLog(r)

\* amount: float, in whole units of currency; json.loads reads NaN as a float
Amounts == {F(3000), F(20000), F(0), F(500), F(0 - 500), NaN}

TransactionRequests ==
    {[route |-> "transaction", account_number |-> "1001", type |-> type, amount |-> amount] :
        type \in {"withdraw", "deposit"}, amount \in Amounts}
    \cup
    { [route |-> "transaction", account_number |-> "1001", type |-> "check", amount |-> F(0)],
      [route |-> "transaction", account_number |-> "1001", type |-> "transfer",
       amount |-> F(500)],
      [route |-> "transaction", account_number |-> "1002", type |-> "withdraw",
       amount |-> F(3000)] }

\* the requests a client's form sends: the amount is a number
FiniteTransactionRequests == {request \in TransactionRequests : ~request.amount.nan}

\* POST /transaction arrives
ReceiveTransactionFrom(r, requests) ==
    /\ Arrives(r)
    /\ \E request \in requests :
        reqs' = [reqs EXCEPT ![r].pc = "find_user", ![r].route = "transaction",
                             ![r].request = request]
    /\ UNCHANGED <<image_vars, key_hash, request_vars, call_vars, generator_vars,
                   users, biometrics, transactions, audit_logs>>

ReceiveTransaction(r) == ReceiveTransactionFrom(r, TransactionRequests)
ReceiveFiniteTransaction(r) == ReceiveTransactionFrom(r, FiniteTransactionRequests)

\* create_transaction from the user lookup to the next await
transaction_checks(user, request) ==
    IF user = None
    THEN [to |-> "raise", response |-> HTTPException(404, "Account not found")]
    ELSE IF request.type = "withdraw"
    THEN IF FLe(request.amount, F(0))
         THEN [to |-> "raise", response |-> HTTPException(400, "Invalid amount")]
         ELSE IF FLt(user.balance, request.amount)
         THEN [to |-> "raise", response |-> HTTPException(400, "Insufficient funds")]
         ELSE [to |-> "update", user |-> user,
               new_balance |-> FSub(user.balance, request.amount)]
    ELSE IF request.type = "deposit"
    THEN IF FLe(request.amount, F(0))
         THEN [to |-> "raise", response |-> HTTPException(400, "Invalid amount")]
         ELSE [to |-> "update", user |-> user,
               new_balance |-> FAdd(user.balance, request.amount)]
    ELSE IF request.type = "check"
    THEN [to |-> "update", user |-> user, new_balance |-> user.balance]
    ELSE [to |-> "raise", response |-> HTTPException(400, "Invalid transaction type")]

\* user = await db.users.find_one(...), and on to the next await
TransactionFindUser(r) ==
    /\ At(r, "transaction", "find_user")
    /\ LET checked == transaction_checks(find_one(users, reqs[r].request.account_number),
                                         reqs[r].request)
       IN  IF checked.to = "raise" THEN Respond(r, checked.response)
           ELSE Await(r, "update", checked)
    /\ UNCHANGED <<image_vars, key_hash, request_vars, call_vars, generator_vars,
                   users, biometrics, transactions, audit_logs>>

\* db.users.update_one({"account_number": ...}, {"$set": {"balance": ...}}):
\* the first matching document is updated
update_one(collection, account_number, balance) ==
    [i \in 1..Len(collection) |->
        IF /\ collection[i].account_number = account_number
           /\ \A j \in 1..i - 1 : collection[j].account_number # account_number
        THEN [collection[i] EXCEPT !.balance = balance]
        ELSE collection[i]]

\* await db.users.update_one(...)
TransactionUpdate(r) ==
    /\ At(r, "transaction", "update")
    /\ users' = update_one(users, reqs[r].request.account_number,
                           reqs[r].locals.new_balance)
    /\ Await(r, "insert", reqs[r].locals)
    /\ UNCHANGED <<image_vars, key_hash, request_vars, call_vars, generator_vars,
                   biometrics, transactions, audit_logs>>

\* await db.transactions.insert_one(trans_doc)
TransactionInsert(r) ==
    /\ At(r, "transaction", "insert")
    /\ transactions' = Append(transactions,
           [user_id |-> reqs[r].locals.user.id,
            account_number |-> reqs[r].request.account_number,
            type |-> reqs[r].request.type, amount |-> reqs[r].request.amount,
            balance_after |-> reqs[r].locals.new_balance])
    /\ Await(r, "log", reqs[r].locals)
    /\ UNCHANGED <<image_vars, key_hash, request_vars, call_vars, generator_vars,
                   users, biometrics, audit_logs>>

\* f"transaction_{request.type}"
transaction_event(type) ==
    CASE type = "withdraw" -> "transaction_withdraw"
      [] type = "deposit" -> "transaction_deposit"
      [] OTHER -> "transaction_check"

\* await log_audit(f"transaction_{request.type}", ...); return
TransactionLog(r) ==
    /\ At(r, "transaction", "log")
    /\ audit_logs' = Append(audit_logs,
           log_audit(transaction_event(reqs[r].request.type),
                     reqs[r].request.account_number, TRUE))
    /\ Respond(r, [status_code |-> 200, success |-> TRUE, match |-> FALSE,
                   detail |-> reqs[r].request.type])
    /\ UNCHANGED <<image_vars, key_hash, request_vars, call_vars, generator_vars,
                   users, biometrics, transactions>>

Transaction(r) ==
    \/ ReceiveTransaction(r)
    \/ TransactionFindUser(r)
    \/ TransactionUpdate(r)
    \/ TransactionInsert(r)
    \/ TransactionLog(r)

TransactionSteps(r) ==
    \/ TransactionFindUser(r)
    \/ TransactionUpdate(r)
    \/ TransactionInsert(r)
    \/ TransactionLog(r)

\* An enrollment of account 1001 that completed before the requests at hand:
\* what EnrollInsertUser, EnrollInsertBio and EnrollLogSuccess leave behind.
EarlierEnrollment ==
    /\ users = <<>>
    /\ biometrics = <<>>
    /\ \A r \in ReqIds : reqs[r].pc = "idle"
    /\ users' = <<[id |-> 0, account_number |-> "1001", balance |-> F(INITIAL_BALANCE)]>>
    /\ biometrics' = <<[user_id |-> 0, account_number |-> "1001",
                        template_blob |-> encrypt_template(key_hash, Dict(EYE_1), IvOf(1))]>>
    /\ audit_logs' = <<log_audit("enrollment_success", "1001", TRUE)>>
    /\ UNCHANGED <<image_vars, key_hash, request_vars, call_vars, generator_vars,
                   transactions, reqs>>

\* transactions with numeric amounts on an enrolled account
NextLedger ==
    \/ EarlierEnrollment
    \/ \E r \in ReqIds :
        \/ ReceiveFiniteTransaction(r)
        \/ TransactionSteps(r)

SpecLedger == Init /\ [][NextLedger]_vars

\* transactions with any amount a request can carry
NextAmounts ==
    \/ EarlierEnrollment
    \/ \E r \in ReqIds :
        \/ ReceiveTransaction(r)
        \/ TransactionSteps(r)

SpecAmounts == Init /\ [][NextAmounts]_vars

\* what is left of a stored blob after a damaged write: its first 24 characters
damaged(template_blob) == Str(SubSeq(template_blob.chars, 1, 24))

\* the store loses part of a template document
DamageStoredTemplate ==
    /\ \E i \in 1..Len(biometrics) :
        /\ biometrics[i].template_blob # damaged(biometrics[i].template_blob)
        /\ biometrics' = [biometrics EXCEPT
                            ![i].template_blob = damaged(biometrics[i].template_blob)]
    /\ UNCHANGED <<image_vars, key_hash, request_vars, call_vars, generator_vars,
                   users, transactions, audit_logs, reqs>>

NextServer ==
    \/ \E r \in ReqIds :
        \/ Enroll(r)
        \/ Verify(r)
        \/ Transaction(r)
    \/ DamageStoredTemplate

SpecServer == Init /\ [][NextServer]_vars

\* enrollments and verifications only
NextVerify ==
    \/ \E r \in ReqIds :
        \/ ReceiveLiveEnroll(r)
        \/ EnrollInsertUser(r)
        \/ EnrollInsertBio(r)
        \/ EnrollLogSuccess(r)
        \/ EnrollFindUser(r)
        \/ Verify(r)
    \/ DamageStoredTemplate

SpecVerify == Init /\ [][NextVerify]_vars

----------------------------------------------------------------------------
(* The fallback routes: POST /fallback/verify and GET /fallback/pin/{account_number} *)

PIN_LEN == 6                  \* hexdigest()[:6]

\* hashlib.md5(account_number.encode()).hexdigest(), as its characters
md5_hexdigest(account_number) ==
    CASE account_number = "1001" ->
           <<"b", "8", "c", "3", "7", "e", "3", "3", "d", "e", "f", "d", "e", "5", "1", "c",
             "f", "9", "1", "e", "1", "e", "0", "3", "e", "5", "1", "6", "5", "7", "d", "a">>
      [] account_number = "1002" ->
           <<"f", "b", "a", "9", "d", "8", "8", "1", "6", "4", "f", "3", "e", "2", "d", "9",
             "1", "0", "9", "e", "e", "7", "7", "0", "2", "2", "3", "2", "1", "2", "a", "0">>

\* the PINs a client sends: each account's, the other's, a prefix, the whole
\* digest, upper case, none
FallbackPins ==
    {Slice(md5_hexdigest(a), 0, n) : a \in {"1001", "1002"}, n \in {0, 5, PIN_LEN, 32}}
        \cup {<<"B", "8", "C", "3", "7", "E">>}

FallbackRequests ==
    {[route |-> "fallback", account_number |-> a, fingerprint_pin |-> pin] :
        a \in {"1001", "1002"}, pin \in FallbackPins}

\* POST /fallback/verify arrives
ReceiveFallback(r) ==
    /\ Arrives(r)
    /\ \E request \in FallbackRequests :
        reqs' = [reqs EXCEPT ![r].pc = "find_user", ![r].route = "fallback",
                             ![r].request = request]
    /\ UNCHANGED <<image_vars, key_hash, request_vars, call_vars, generator_vars,
                   users, biometrics, transactions, audit_logs>>

\* a PIN that is the whole digest
expected_pin_whole(account_number) == md5_hexdigest(account_number)

\* expected_pin = hashlib.md5(request.account_number.encode()).hexdigest()[:6]
expected_pin(account_number) == Slice(md5_hexdigest(account_number), 0, PIN_LEN)

\* fallback_verify from the user lookup to the next await
fallback_checks(user, request) ==
    IF user = None
    THEN [to |-> "raise", user |-> user,
          response |-> HTTPException(404, "Account not found")]
    ELSE IF request.fingerprint_pin = expected_pin(request.account_number)
    THEN [to |-> "log", user |-> user, action |-> "fallback_verification_success",
          response |-> [status_code |-> 200, success |-> TRUE, match |-> TRUE,
                        detail |-> "fallback_fingerprint"]]
    ELSE [to |-> "log", user |-> user, action |-> "fallback_verification_failed",
          response |-> [status_code |-> 200, success |-> FALSE, match |-> FALSE,
                        detail |-> "Invalid fingerprint PIN"]]

\* user = await db.users.find_one(...), and on to the next await
FallbackFindUser(r) ==
    /\ At(r, "fallback", "find_user")
    /\ LET checked == fallback_checks(find_one(users, reqs[r].request.account_number),
                                      reqs[r].request)
       IN  reqs' = [reqs EXCEPT ![r].pc = IF checked.to = "raise" THEN "done" ELSE "log",
                                ![r].locals = checked,
                                ![r].response = IF checked.to = "raise"
                                                THEN checked.response ELSE @]
    /\ UNCHANGED <<image_vars, key_hash, request_vars, call_vars, generator_vars,
                   users, biometrics, transactions, audit_logs>>

\* await log_audit("fallback_verification_...", ...); return
FallbackLog(r) ==
    /\ At(r, "fallback", "log")
    /\ audit_logs' = Append(audit_logs,
           log_audit(reqs[r].locals.action, reqs[r].request.account_number,
                     reqs[r].locals.response.success))
    /\ Respond(r, reqs[r].locals.response)
    /\ UNCHANGED <<image_vars, key_hash, request_vars, call_vars, generator_vars,
                   users, biometrics, transactions>>

\* get_fallback_pin(account_number)
get_fallback_pin(account_number) ==
    [status_code |-> 200, account_number |-> account_number,
     demo_pin |-> Slice(md5_hexdigest(account_number), 0, PIN_LEN)]

\* GET /fallback/pin/{account_number}: the handler has no await
GetFallbackPin(r) ==
    /\ Arrives(r)
    /\ \E account_number \in {"1001", "1002"} :
        reqs' = [reqs EXCEPT ![r].pc = "done", ![r].route = "fallback_pin",
                             ![r].request = [route |-> "fallback_pin",
                                             account_number |-> account_number],
                             ![r].response = get_fallback_pin(account_number)]
    /\ UNCHANGED <<image_vars, key_hash, request_vars, call_vars, generator_vars,
                   users, biometrics, transactions, audit_logs>>

Fallback(r) ==
    \/ ReceiveFallback(r)
    \/ FallbackFindUser(r)
    \/ FallbackLog(r)
    \/ GetFallbackPin(r)

\* enrollments and the fallback routes
NextFallback ==
    \E r \in ReqIds :
        \/ ReceiveLiveEnroll(r)
        \/ EnrollFindUser(r)
        \/ EnrollInsertUser(r)
        \/ EnrollInsertBio(r)
        \/ EnrollLogSuccess(r)
        \/ Fallback(r)

SpecFallback == Init /\ [][NextFallback]_vars

\* The caller keeps the template create_template returned (None if it returned
\* None), as it is, encrypted, or encrypted and damaged in the store; the first
\* is kept as template1, the second as template2.
KeepTemplate ==
    /\ op = "create_template"
    /\ \E kept \in {IF ret = None THEN None ELSE ret.template}
                   \cup (IF ret = None \/ earlier # NoEarlier THEN {}
                         ELSE {OwnBlob(ret.template.data),
                               damaged(OwnBlob(ret.template.data))}) :
        IF earlier = NoEarlier
        THEN m_a' = kept /\ m_b' = m_b /\ op' = "init"
        ELSE m_b' = kept /\ m_a' = m_a /\ op' = "request"
    /\ earlier' = [op |-> op, frames |-> <<>>,
                   ret |-> IF ret = None THEN None ELSE ret.template]
    /\ frames' = <<>>
    /\ ret' = None
    /\ work' = <<>>
    /\ m_log' = <<>>
    /\ UNCHANGED <<image_vars, call_vars, server_vars, generator_vars, key_hash, blob, origin>>

\* match_templates at the default threshold
MatchTemplatesDefault ==
    /\ op = "request"
    /\ ret' = match_templates(key_hash, m_a, m_b, DEFAULT_THRESHOLD)
    /\ m_log' = [t \in {DEFAULT_THRESHOLD} |->
                    match_templates(key_hash, m_a, m_b, DEFAULT_THRESHOLD)]
    /\ op' = "match_templates"
    /\ UNCHANGED <<image_vars, call_vars, server_vars, generator_vars, key_hash, earlier, blob,
                   origin, frames, m_a, m_b, work>>

\* the frames of the matching runs: one that fails and two eyes
FusedInputs ==
    { FRAME_UNDECODABLE,
      Frame(TRUE, TRUE, Arr(<<100, 0>>), 50, 100),
      Frame(TRUE, TRUE, Arr(<<0, 100>>), 60, 104) }

CaptureEyes == CaptureFrom(FusedInputs)

NextFused ==
    \/ CaptureEyes
    \/ CreateTemplate
    \/ KeepTemplate
    \/ MatchTemplatesDefault

SpecFused == Init /\ [][NextFused]_vars

----------------------------------------------------------------------------
(* detect_iris_region on the image: the shape of the image, the first circle
   cv2.HoughCircles found in it (or none), and the box that is cropped. *)

PATCH_SIZE == 128      \* cv2.resize(..., (128, 128))
UINT16 == 65536        \* np.uint16 holds 0..65535

\* a grayscale image of h rows and w columns in which HoughCircles finds
\* circles (None, or the array of the first circle x, y, r after np.around)
GrayImage(h, w, circles) == [tag |-> "gray", h |-> h, w |-> w, circles |-> circles]

ImageSides == {1, 2, 3, 5, 60, 400}
\* the circles HoughCircles(minRadius=20, maxRadius=120) may find in an image
\* of h rows and w columns: the centre is a pixel of the image
CirclesIn(h, w) ==
    {Arr(<<x, y, r>>) : x \in {0, 10, w \div 2, w - 1} \cap 0..w - 1,
                   y \in {0, 30, h - 1} \cap 0..h - 1,
                   r \in {20, 100, 120}}
GrayImages ==
    {GrayImage(h, w, None) : h \in ImageSides, w \in ImageSides}
    \cup UNION {{GrayImage(h, w, c) : c \in CirclesIn(h, w)} :
                    h \in {5, 60, 400}, w \in {5, 60, 400}}

\* How a np.uint16 scalar and a Python int combine depends on the NumPy the
\* server runs on: before NumPy 2 the result is an int64, from NumPy 2 on it
\* stays a uint16 and wraps.
Promotions == {"int64", "uint16"}
uint16_sub(a, b, promotion) == IF promotion = "uint16" THEN (a - b) % UINT16 ELSE a - b
uint16_add(a, b, promotion) == IF promotion = "uint16" THEN (a + b) % UINT16 ELSE a + b

\* r = int(r * 1.3)
expand_radius(r) == (r * 13) \div 10

\* the number of indices of a[lo:hi] on an axis of length n (lo, hi >= 0)
slice_len(lo, hi, n) == Max(0, Min(hi, n) - Min(lo, n))

\* lines 93-97: the box around the circle
circle_box(img, promotion) ==
    LET x == img.circles.data[1]
        y == img.circles.data[2]
        r == expand_radius(img.circles.data[3])
    IN  [x1 |-> Max(0, uint16_sub(x, r, promotion)),
         y1 |-> Max(0, uint16_sub(y, r, promotion)),
         x2 |-> Min(img.w, uint16_add(x, r, promotion)),
         y2 |-> Min(img.h, uint16_add(y, r, promotion))]

\* a centre crop that starts at the next row and column after a quarter
center_box_rounded_up(img) ==
    [x1 |-> (img.w + 3) \div 4, y1 |-> (img.h + 3) \div 4,
     x2 |-> (3 * img.w) \div 4, y2 |-> (3 * img.h) \div 4]

\* line 108: preprocessed_img[h//4:3*h//4, w//4:3*w//4]
center_box(img) ==
    [x1 |-> img.w \div 4, y1 |-> img.h \div 4,
     x2 |-> (3 * img.w) \div 4, y2 |-> (3 * img.h) \div 4]

\* preprocessed_img[y1:y2, x1:x2].size
crop_size(img, box) ==
    slice_len(box.y1, box.y2, img.h) * slice_len(box.x1, box.x2, img.w)

\* cv2.resize(region, (128, 128))
resize(box, from) ==
    [tag |-> "patch", rows |-> PATCH_SIZE, cols |-> PATCH_SIZE, box |-> box, from |-> from]

\* lines 106-112: the fallback
center_crop(img) ==
    IF crop_size(img, center_box(img)) > 0 THEN resize(center_box(img), "center")
    ELSE None

\* detect_iris_region on the image, the circles HoughCircles found in it given
detect_iris_region_on(img, promotion) ==
    IF img.circles # None /\ crop_size(img, circle_box(img, promotion)) > 0
    THEN resize(circle_box(img, promotion), "circle")
    ELSE center_crop(img)

\* an image arrives from preprocess_frame
TakeImage ==
    /\ op = "init"
    /\ image = None
    /\ image' \in GrayImages
    /\ UNCHANGED <<key_hash, request_vars, call_vars, server_vars, generator_vars, patch,
                   measured, feature_vector>>

\* detect_iris_region(image); what was cropped is kept with the build's promotion
DetectIrisRegion ==
    /\ image # None
    /\ patch = None
    /\ \E promotion \in Promotions :
        patch' = [returned |-> detect_iris_region_on(image, promotion),
                  promotion |-> promotion]
    /\ UNCHANGED <<key_hash, request_vars, call_vars, server_vars, generator_vars, image,
                   measured, feature_vector>>

NextRegion ==
    \/ TakeImage
    \/ DetectIrisRegion

SpecRegion == Init /\ [][NextRegion]_vars

----------------------------------------------------------------------------
(* extract_features on the patch: what the four extractors measure on its
   pixels, the concatenation and the L2 normalization.  Values are in units
   1/SCALE. *)

LBP_BINS == 32         \* np.histogram(lbp.ravel(), bins=32, range=(0, 32))
HOG_LEN == 64          \* hog_features[:64]
PIXELS == 16384        \* 128 * 128

\* a patch by what the extractors measure on it: the number of pixels with
\* each LBP code, the HOG features, the Gabor responses, the intensity statistics
Texture(lbp, hog, gabor, stats) ==
    [tag |-> "patch", size |-> SumSeq(lbp), lbp |-> lbp, hog |-> hog, gabor |-> gabor,
     stats |-> stats]
\* iris_region with iris_region.size == 0
EMPTY_PATCH == [tag |-> "patch", size |-> 0]

\* all pixels in the codes lo..hi (of the uniform codes 0..9), evenly
LbpCounts(lo, hi) ==
    [i \in 1..LBP_BINS |->
        IF i - 1 \in lo..hi
        THEN PIXELS \div (hi - lo + 1)
             + (IF i - 1 = lo THEN PIXELS % (hi - lo + 1) ELSE 0)
        ELSE 0]
Constant(n, v) == [i \in 1..n |-> v]

\* one orientation takes the whole of each cell's block
OneOrientation == [i \in 1..HOG_LEN |-> IF i % 8 = 1 THEN SCALE ELSE 0]

\* patches of one gray level: every pixel has the LBP code 8, there is no
\* gradient and no spread
FlatTextures ==
    {Texture(LbpCounts(8, 8), Constant(HOG_LEN, 0), <<g, 0, g, 0, g, 0, g, 0>>,
             <<v, 0, v, v, v>>) :
        v \in {0, 12800, 18000}, g \in {0, 9000}}

\* patches with texture, from nearly black to bright
GrainedTextures ==
    {Texture(lbp, hog, gabor, stats) :
        lbp \in {LbpCounts(0, 9), LbpCounts(0, 1), LbpCounts(3, 8), LbpCounts(8, 9),
                 LbpCounts(4, 9)},
        hog \in {Constant(HOG_LEN, 0), Constant(HOG_LEN, 35), OneOrientation},
        gabor \in {Constant(8, 0), <<9000, 4000, 100, 300, 9000, 4000, 0, 0>>},
        stats \in {<<50, 50, 0, 0, 100>>, <<12000, 5000, 12500, 0, 25500>>,
                   <<18000, 3000, 19000, 10000, 25500>>}}

Textures == FlatTextures \cup GrainedTextures

\* lbp_hist /= (lbp_hist.sum() + 1e-7)
lbp_hist(t) == [i \in 1..LBP_BINS |-> (t.lbp[i] * SCALE) \div SumSeq(t.lbp)]

\* a concatenation that leaves the LBP histogram out
concatenate_without_lbp(t) == t.hog \o t.gabor \o t.stats

\* np.concatenate(features)
concatenate(t) == lbp_hist(t) \o t.hog \o t.gabor \o t.stats

\* feature_vector / (np.linalg.norm(feature_vector) + 1e-7), kept as the
\* quotient: the vector, and the number that 1e-7 is added to and it is
\* divided by
l2_normalize(v) == [tag |-> "quotient", vector |-> v, over |-> linalg_norm(v)]

\* extract_features on the patch
extract_features_on(t) ==
    IF t = None \/ t.size = 0 THEN None
    ELSE l2_normalize(concatenate(t))

\* detect_iris_region returns a patch; None stays where it returned None
TakePatch ==
    /\ op = "init"
    /\ measured = None
    /\ feature_vector = None
    /\ measured' \in Textures \cup {EMPTY_PATCH}
    /\ UNCHANGED <<key_hash, request_vars, call_vars, server_vars, generator_vars, image,
                   patch, feature_vector>>

\* extract_features(iris_region)
ExtractFeatures ==
    /\ feature_vector = None
    /\ feature_vector' = [returned |-> extract_features_on(measured)]
    /\ UNCHANGED <<key_hash, request_vars, call_vars, server_vars, generator_vars, image,
                   patch, measured>>

NextExtract ==
    \/ TakePatch
    \/ ExtractFeatures

SpecExtract == Init /\ [][NextExtract]_vars

----------------------------------------------------------------------------
(* match_templates on templates of the length extract_features gives *)

\* 32 LBP bins, 64 HOG features, 8 Gabor responses, 5 intensity statistics
TEMPLATE_LEN == LBP_BINS + HOG_LEN + 8 + 5

\* the template with v in the elements lo..hi and 0 elsewhere
Spread(lo, hi, v) == [i \in 1..TEMPLATE_LEN |-> IF i \in lo..hi THEN v ELSE 0]

\* templates of the kind create_template produces: the mean of L2-normalized
\* vectors of non-negative features, so no element is negative and the norm
\* is at most 1.  A black patch (all in the LBP bin of code 8), a bright flat
\* patch (all in the statistics), single elements, the HOG, Gabor and LBP
\* parts, all elements alike, and means of two of these.
FullTemplates ==
    { Spread(9, 9, 100), Spread(105, 109, 44), Spread(1, 1, 100), Spread(109, 109, 100),
      Spread(50, 50, 100), Spread(33, 96, 12), Spread(97, 104, 35), Spread(1, 10, 31),
      Spread(1, TEMPLATE_LEN, 9), Spread(1, 2, 50), Spread(108, 109, 50),
      Spread(9, 9, 71) }

\* two templates of full length are handed to match_templates
ChooseFullTemplates ==
    /\ op = "init"
    /\ m_a' \in {Arr(v) : v \in FullTemplates}
    /\ m_b' \in {Arr(v) : v \in FullTemplates}
    /\ m_log' = <<>>
    /\ op' = "request"
    /\ ret' = None
    /\ UNCHANGED <<image_vars, call_vars, server_vars, generator_vars, key_hash, earlier,
                   blob, origin, frames, work>>

NextFullLength ==
    \/ ChooseFullTemplates
    \/ MatchTemplatesDefault

SpecFullLength == Init /\ [][NextFullLength]_vars

NextEnvelope ==
    \/ EncryptTemplate
    \/ ForeignBlob
    \/ TruncateBlob
    \/ JunkInBlob
    \/ CorruptBlob
    \/ DecryptTemplate

SpecEnvelope == Init /\ [][NextEnvelope]_vars

----------------------------------------------------------------------------
(* Properties of the envelope *)

\* C1 (round trip): decrypt_template of a blob this engine's encrypt_template
\* produced, unmodified, returns a non-null array with the length and the
\* element values of the encrypted template, whichever IV was drawn.
RoundTrip ==
    (op = "decrypt_template" /\ origin.by = "self" /\ origin.edit = "none") =>
        /\ ret.tag = "ndarray"
        /\ Len(ret.data) = Len(origin.template)
        /\ \A i \in 1..Len(origin.template) : ret.data[i] = origin.template[i]

RoundTripWitness ==
    /\ op = "decrypt_template" /\ origin.by = "self" /\ origin.edit = "none"
    /\ Len(origin.template) = MaxLen
    /\ origin.iv # IvOf(0)
    /\ \E i, j \in 1..MaxLen : origin.template[i] # origin.template[j]
    /\ ret = Arr(origin.template)

\* the text is well-formed base64: whole quads of alphabet characters, with
\* '=' only as the last one or two characters
WellFormedB64(c) ==
    /\ Len(c) % 4 = 0
    /\ \A i \in 1..Len(c) :
        /\ c[i] <= B64_PAD
        /\ c[i] = B64_PAD => (i = Len(c) \/ (i = Len(c) - 1 /\ c[Len(c)] = B64_PAD))

MalformedB64(b) == b.tag = "str" /\ ~WellFormedB64(b.chars)
DecodedLen(b) == Len(b64decode(b).val)
ShortIV(b) == ~IsRaise(b64decode(b)) /\ DecodedLen(b) < IV_LEN
Unaligned(b) ==
    ~IsRaise(b64decode(b)) /\ DecodedLen(b) >= IV_LEN
    /\ (DecodedLen(b) - IV_LEN) % AES_block_size # 0
BadlyPadded(k, b) ==
    /\ ~IsRaise(b64decode(b)) /\ DecodedLen(b) >= IV_LEN
    /\ (DecodedLen(b) - IV_LEN) % AES_block_size = 0
    /\ LET raw == b64decode(b).val
       IN  IsRaise(unpad(cbc_decrypt(k, SubSeq(raw, 1, IV_LEN),
                                     SubSeq(raw, IV_LEN + 1, Len(raw))), AES_block_size))

\* C2 (fails closed): decrypt_template returns null, and never raises, for
\* every input that is malformed base64, that decodes to a short IV or to a
\* ciphertext that is not block-aligned or badly padded, or that was
\* encrypted under a different key.
DecryptFailsClosed ==
    op = "decrypt_template" =>
        /\ ~IsRaise(ret)
        /\ (\/ MalformedB64(blob)
            \/ ShortIV(blob)
            \/ Unaligned(blob)
            \/ BadlyPadded(key_hash, blob)
            \/ origin.by = "other") => ret = None

----------------------------------------------------------------------------
(* Properties of the matcher *)

Raised(r) == "tag" \in DOMAIN r /\ r.tag = "raise"
HasError(r) == "error" \in DOMAIN r

\* what match_templates works on: a str argument stands for its decryption
Decoded(x) == IF x.tag = "str" THEN decrypt_template(key_hash, x) ELSE x

AreArrays(da, db) == da.tag = "ndarray" /\ db.tag = "ndarray"

\* a null input, a str that fails to decrypt, or templates of different lengths
MatchFailureCase(da, db) ==
    \/ m_a = None \/ m_b = None
    \/ (m_a.tag = "str" /\ da = None)
    \/ (m_b.tag = "str" /\ db = None)
    \/ (AreArrays(da, db) /\ Len(da.data) # Len(db.data))

\* C3: match_templates never raises; on a null input, a str that fails to
\* decrypt or templates of different lengths it returns match=false,
\* confidence=0.0 and an error reason string.
MatchNeverRaises ==
    LET da == Decoded(m_a)
        db == Decoded(m_b)
    IN  \A t \in DOMAIN m_log :
            /\ ~Raised(m_log[t])
            /\ MatchFailureCase(da, db) =>
                /\ m_log[t].match = FALSE
                /\ m_log[t].confidence = F(0)
                /\ HasError(m_log[t])
                /\ m_log[t].error \in STRING

\* a blob holding a 2-element template against a 1-element array: the one
\* length mismatch that numpy broadcasting would let through
MatchNeverRaisesWitness ==
    /\ op = "match_templates"
    /\ m_a.tag = "str" /\ m_b.tag = "ndarray"
    /\ Len(m_b.data) = 1
    /\ LET da == Decoded(m_a) IN da.tag = "ndarray" /\ Len(da.data) = 2
    /\ \E t \in DOMAIN m_log : HasError(m_log[t]) /\ ~m_log[t].match

\* ||a - b|| / sqrt(n) and the cosine similarity, as the claim states them
EuclidDist(a, b) == isqrt(SumSeq([i \in 1..Len(a) |-> (a[i] - b[i]) * (a[i] - b[i])]))
NormalizedDist(a, b) == FDiv(F(EuclidDist(a, b)), F(isqrt(Len(a) * SCALE * SCALE)))
CosineSim(a, b) ==
    IF dot(a, a) * dot(b, b) = 0 THEN NaN
    ELSE F(SCALE - Max(0, Min(2 * SCALE,
               SCALE - ((dot(a, b) * SCALE) \div isqrt(dot(a, a) * dot(b, b))))))

\* C4: for two non-null templates of equal length, match is true iff the
\* normalized distance is strictly below the threshold (equal is a non-match)
\* and the confidence is the average of the cosine similarity and
\* 1 - normalized distance.
MatchIffBelowThreshold ==
    LET da == Decoded(m_a)
        db == Decoded(m_b)
    IN  (DOMAIN m_log # {} /\ AreArrays(da, db) /\ Len(da.data) = Len(db.data)) =>
            LET nd == NormalizedDist(da.data, db.data)
                sim == CosineSim(da.data, db.data)
            IN  \A t \in DOMAIN m_log :
                    /\ ~HasError(m_log[t])
                    /\ m_log[t].match = (~nd.nan /\ nd.v < t)
                    /\ m_log[t].distance = nd
                    /\ m_log[t].similarity = sim
                    /\ m_log[t].confidence =
                          (IF nd.nan \/ sim.nan THEN NaN
                           ELSE F((sim.v + (SCALE - nd.v)) \div 2))

\* the distance is exactly the default threshold, and the verdict is non-match
MatchIffBelowThresholdWitness ==
    /\ op = "match_templates"
    /\ m_a.tag = "ndarray" /\ m_b.tag = "ndarray"
    /\ Len(m_a.data) = Len(m_b.data) /\ Len(m_a.data) > 0
    /\ DEFAULT_THRESHOLD \in DOMAIN m_log
    /\ m_log[DEFAULT_THRESHOLD].distance = F(DEFAULT_THRESHOLD)
    /\ m_log[DEFAULT_THRESHOLD].match = FALSE
    /\ \E t \in DOMAIN m_log : m_log[t].match

\* C5 (threshold monotonicity): on fixed templates, a match at threshold t1
\* is a match at every threshold t2 >= t1.
ThresholdMonotone ==
    \A t1, t2 \in DOMAIN m_log :
        (t1 <= t2 /\ m_log[t1].match) => m_log[t2].match

\* the same pair was matched at three thresholds; the verdict turned from
\* non-match to match on the way up
ThresholdMonotoneWitness ==
    /\ DOMAIN m_log = Thresholds
    /\ \E t1, t2, t3 \in Thresholds :
        /\ t1 < t2 /\ t2 < t3
        /\ ~m_log[t1].match /\ m_log[t2].match /\ m_log[t3].match

\* a template create_template can return: non-empty and not the zero vector
ValidTemplate(v) == Len(v) > 0 /\ \E i \in 1..Len(v) : v[i] # 0

\* C6 (self-match): a valid template matched against itself at the default
\* threshold gives match=true, normalized distance 0, similarity 1 and no
\* error field.
SelfMatch ==
    DEFAULT_THRESHOLD \in DOMAIN m_log =>
        LET da == Decoded(m_a)
            db == Decoded(m_b)
            r == m_log[DEFAULT_THRESHOLD]
        IN  (AreArrays(da, db) /\ da.data = db.data /\ ValidTemplate(da.data)) =>
                /\ ~HasError(r)
                /\ r.match = TRUE
                /\ r.distance = F(0)
                /\ r.similarity = F(SCALE)

SelfMatchWitness ==
    /\ DEFAULT_THRESHOLD \in DOMAIN m_log
    /\ m_a.tag = "ndarray" /\ m_a = m_b
    /\ Len(m_a.data) = MaxDim /\ \A i \in 1..MaxDim : m_a.data[i] # 0
    /\ \E i, j \in 1..MaxDim : m_a.data[i] # m_a.data[j]
    /\ m_log[DEFAULT_THRESHOLD].match

----------------------------------------------------------------------------
(* Properties of liveness and template fusion *)

INSUFFICIENT == [is_live |-> FALSE, reason |-> "Insufficient frames"]
FAILED_TO_PROCESS == [is_live |-> FALSE, reason |-> "Failed to process frames"]

\* a frame check_liveness keeps: it decodes and a region is located
LivenessSurvivor(f) == f.decodes /\ f.region
\* a frame create_template keeps: it also yields a feature vector
FusionSurvivor(f) == f.decodes /\ f.region /\ f.features # None

LivenessSurvivors == SelectSeq(frames, LivenessSurvivor)
FusionSurvivors == SelectSeq(frames, FusionSurvivor)

Qualities(fs) == [i \in 1..Len(fs) |-> fs[i].quality]
Brightnesses(fs) == [i \in 1..Len(fs) |-> fs[i].brightness]

\* the floating-point sum of xs taken in sequence order: each partial sum is
\* the float nearest to the previous partial sum plus the next item
RunningSum(xs) ==
    LET S[k \in 0..Len(xs)] == IF k = 0 THEN 0 ELSE float_round(S[k - 1] + xs[k])
    IN  S[Len(xs)]

\* the population variance sum((x - mean)^2) / n in floating point, as the
\* fraction num/den: x - mean is (n*x - sum)/n
Variance(xs) ==
    LET n == Len(xs)
        t == RunningSum(xs)
    IN  [num |-> RunningSum([i \in 1..n |-> float_round((n * xs[i] - t) * (n * xs[i] - t))]),
         den |-> n * n * n]

SameFraction(a, b) == a.num * b.den = b.num * a.den

\* C7 (minimum-frame guard): check_liveness on 0, 1 or 2 frames returns
\* is_live=false with reason "Insufficient frames" and hands no frame to
\* preprocess_frame.
MinimumFrameGuard ==
    (op = "check_liveness" /\ Len(frames) < 3) =>
        /\ ret = INSUFFICIENT
        /\ work = <<>>

MinimumFrameGuardWitness ==
    /\ op = "check_liveness"
    /\ Len(frames) = 2
    /\ \A i \in 1..2 : LivenessSurvivor(frames[i])
    /\ ret = INSUFFICIENT

\* C8: given 3 or more frames, check_liveness passes every frame to
\* preprocess_frame, drops those that fail decoding or region location, returns
\* "Failed to process frames" when fewer than 3 survive (also when none does),
\* and otherwise reports the variances of exactly the surviving frames.
LivenessDropsFailedFrames ==
    (op = "check_liveness" /\ Len(frames) >= 3) =>
        /\ work = frames
        /\ Len(LivenessSurvivors) < 3 => ret = FAILED_TO_PROCESS
        /\ Len(LivenessSurvivors) >= 3 =>
            /\ "reason" \notin DOMAIN ret
            /\ SameFraction(ret.quality_variance, Variance(Qualities(LivenessSurvivors)))
            /\ SameFraction(ret.brightness_variance,
                            Variance(Brightnesses(LivenessSurvivors)))

\* the first frame is undecodable, the three after it survive and are live
LivenessDropsFailedFramesWitness ==
    /\ op = "check_liveness"
    /\ Len(frames) = 4
    /\ frames[1] = FRAME_UNDECODABLE
    /\ Len(LivenessSurvivors) = 3
    /\ ret.is_live = TRUE

\* C9: with at least 3 surviving frames, is_live is true iff the variance of
\* the surviving quality scores is > 0.001 and that of the surviving
\* brightness values is > 1.0; survivors that all share one quality and one
\* brightness give is_live=false.
LivenessVerdict ==
    (op = "check_liveness" /\ Len(frames) >= 3 /\ Len(LivenessSurvivors) >= 3) =>
        LET qv == Variance(Qualities(LivenessSurvivors))
            bv == Variance(Brightnesses(LivenessSurvivors))
        IN  /\ ret.is_live = (/\ qv.num * 1000 > qv.den * SCALE * SCALE
                              /\ bv.num > bv.den)
            /\ (\A i \in 1..Len(LivenessSurvivors) :
                    /\ LivenessSurvivors[i].quality = LivenessSurvivors[1].quality
                    /\ LivenessSurvivors[i].brightness = LivenessSurvivors[1].brightness)
                => ret.is_live = FALSE

\* the quality varies enough and the brightness variance is exactly 1.0: not live
LivenessVerdictWitness ==
    /\ op = "check_liveness"
    /\ Len(LivenessSurvivors) >= 3
    /\ ret.brightness_variance.num = ret.brightness_variance.den
    /\ quality_varies(ret.quality_variance)
    /\ ret.is_live = FALSE

\* C10 (template fusion): create_template passes every frame to
\* preprocess_frame and keeps those that decode, have a region and yield
\* features; it returns null iff none survives; otherwise num_frames is the
\* number of survivors, the template the element-wise mean of their feature
\* vectors and quality_score the mean of their quality scores.
TemplateFusion ==
    op = "create_template" =>
        LET sv == FusionSurvivors
            n == Len(sv)
        IN  /\ work = frames
            /\ (ret = None) <=> (n = 0)
            /\ n > 0 =>
                /\ ret.num_frames = n
                /\ ret.template =
                      Arr([i \in 1..Len(sv[1].features.data) |->
                             RunningSum([j \in 1..n |-> sv[j].features.data[i]]) \div n])
                /\ ret.quality_score = RunningSum(Qualities(sv)) \div n

\* four frames: one undecodable, one without features, two with different
\* feature vectors and quality scores
TemplateFusionWitness ==
    /\ op = "create_template"
    /\ Len(frames) = 4
    /\ \E i, j \in 1..4 : frames[i] = FRAME_UNDECODABLE /\ frames[j] = FRAME_NO_FEATURES
    /\ Len(FusionSurvivors) = 2
    /\ FusionSurvivors[1].features # FusionSurvivors[2].features
    /\ FusionSurvivors[1].quality # FusionSurvivors[2].quality
    /\ ret.num_frames = 2

----------------------------------------------------------------------------
(* Properties of reordering *)

\* the call just served repeats an earlier call on the same frames in another order
Repeated(o) == op = o /\ earlier.op = o

\* C11 (order independence), as stated: a batch and any permutation of it give
\* the same template, quality_score and num_frames from create_template and the
\* same verdict, variances and confidence from check_liveness.
OrderIndependent ==
    (Repeated("create_template") \/ Repeated("check_liveness")) => ret = earlier.ret

\* |x|
Abs(x) == IF x < 0 THEN 0 - x ELSE x

\* the rounding error `ops` rounded operations on magnitudes up to `mag` can
\* add up to: each result is off by at most half a unit in the last place,
\* which is at most its magnitude / 2^MANT
RoundingBound(mag, ops) == (ops * mag) \div Pow(2, MANT) + 1

\* the error of a floating-point sum of xs, whatever the order
SumBound(xs) == RoundingBound(SumSeq([i \in 1..Len(xs) |-> Abs(xs[i])]), Len(xs) - 1)

\* the error of the numerator of the variance of xs (variance times n^3):
\* the sum it subtracts is off by up to SumBound, the squares and their sum
\* are rounded
VarBound(xs) ==
    LET n == Len(xs)
        delta == SumBound(xs)
        total == SumSeq(xs)
        far == CHOOSE i \in 1..n : \A j \in 1..n :
                   Abs(n * xs[j] - total) <= Abs(n * xs[i] - total)
        dmax == Abs(n * xs[far] - total) + delta
    IN  n * (2 * dmax * delta + delta * delta) + RoundingBound(n * dmax * dmax, 2 * n - 1)

\* C11, amended: a batch and any permutation of it have the same surviving
\* frames, so create_template returns null for both or the same num_frames for
\* both, and check_liveness fails with the same reason for both or succeeds
\* for both; the template, quality_score and variances of the two calls agree
\* up to the rounding error of the floating-point sums, which are taken in
\* frame order.
OrderIndependentUpToRounding ==
    /\ Repeated("create_template") =>
          LET sv == FusionSurvivors
              n == Len(sv)
          IN  /\ (ret = None) = (earlier.ret = None)
              /\ ret # None =>
                  /\ ret.num_frames = earlier.ret.num_frames
                  /\ Len(ret.template.data) = Len(earlier.ret.template.data)
                  /\ \A i \in 1..Len(ret.template.data) :
                        n * Abs(ret.template.data[i] - earlier.ret.template.data[i])
                            <= 2 * SumBound([j \in 1..n |-> sv[j].features.data[i]]) + n
                  /\ n * Abs(ret.quality_score - earlier.ret.quality_score)
                        <= 2 * SumBound(Qualities(sv)) + n
    /\ Repeated("check_liveness") =>
          /\ DOMAIN ret = DOMAIN earlier.ret
          /\ "reason" \in DOMAIN ret => ret = earlier.ret
          /\ "reason" \notin DOMAIN ret =>
              /\ ret.quality_variance.den = earlier.ret.quality_variance.den
              /\ ret.brightness_variance.den = earlier.ret.brightness_variance.den
              /\ Abs(ret.quality_variance.num - earlier.ret.quality_variance.num)
                    <= 2 * VarBound(Qualities(LivenessSurvivors))
              /\ Abs(ret.brightness_variance.num - earlier.ret.brightness_variance.num)
                    <= 2 * VarBound(Brightnesses(LivenessSurvivors))
              /\ (/\ ret.quality_variance = earlier.ret.quality_variance
                  /\ ret.brightness_variance = earlier.ret.brightness_variance)
                 => ret = earlier.ret

\* four surviving frames were judged live in both orders, with quality
\* variances that differ in the rounding of the sums
OrderIndependentUpToRoundingWitness ==
    /\ Repeated("check_liveness")
    /\ Len(frames) = 4 /\ Len(LivenessSurvivors) = 4
    /\ frames # earlier.frames
    /\ ret.is_live /\ earlier.ret.is_live
    /\ ret.quality_variance # earlier.ret.quality_variance

----------------------------------------------------------------------------
(* Properties of concurrent calls *)

\* C12 (stateless pipeline): key_hash keeps the value the constructor gave it
\* whatever calls run, and in every interleaving each finished call returned
\* what the same method returns when run alone on the same argument (and the
\* same IV draw).
StatelessPipeline ==
    /\ key_hash = sha256(DEFAULT_SECRET)
    /\ \A c \in CallIds :
          calls[c].pc = "done" =>
              calls[c].result = Apply(calls[c].op, sha256(DEFAULT_SECRET), calls[c].arg)

\* a decryption that returned the template while an encryption was under way
\* on the same engine, both finished
StatelessPipelineWitness ==
    \E c, d \in CallIds :
        /\ c # d
        /\ calls[c].pc = "done" /\ calls[c].op = "decrypt_template"
        /\ calls[c].overlapped
        /\ calls[c].result = Arr(<<1000>>)
        /\ calls[d].pc = "done" /\ calls[d].op = "encrypt_template"
        /\ calls[d].result.tag = "str"

----------------------------------------------------------------------------
(* Properties of the synthetic generator *)

\* C13 (generator determinism): a call generate(width, height, seed=S) returns
\* the image the first call with the same width, height and seed returned,
\* whatever calls (other seeds, no seed, engine methods) came before or between.
GeneratorDeterminism ==
    last_generated.again =>
        last_generated.image =
            generated[<<last_generated.width, last_generated.height, last_generated.seed>>]

\* seed 0 asked a second time, after a call with seed 1 gave another image for
\* the same size and an engine method ran
GeneratorDeterminismWitness ==
    /\ last_generated.again
    /\ last_generated.seed = PyInt(0)
    /\ op \in EngineOps
    /\ generated[<<last_generated.width, last_generated.height, PyInt(1)>>] # None
    /\ generated[<<last_generated.width, last_generated.height, PyInt(1)>>] # last_generated.image

----------------------------------------------------------------------------
(* Properties of the server *)

Count(collection, account_number) ==
    Cardinality({i \in 1..Len(collection) : collection[i].account_number = account_number})

AccountNumbers == {"1001", "1002"}

\* C14 (one template per account): whatever enroll requests ran or are running,
\* the store holds at most one user record and at most one encrypted template
\* for each account number.
OneTemplatePerAccount ==
    \A a \in AccountNumbers : Count(users, a) <= 1 /\ Count(biometrics, a) <= 1

Verified(a) ==
    \E j \in 1..Len(audit_logs) : audit_logs[j] = log_audit("verification_success", a, TRUE)

\* a withdraw or deposit whose balance update has been done
Applied(r) ==
    /\ reqs[r].route = "transaction"
    /\ reqs[r].request.type \in {"withdraw", "deposit"}
    /\ \/ reqs[r].pc \in {"insert", "log"}
       \/ reqs[r].pc = "done" /\ reqs[r].response.success

\* C15 (transactions follow a match): each withdraw or deposit that was applied
\* to an account came after a verification of that account that returned
\* match=true.
TransactionsFollowVerification ==
    \A r \in ReqIds : Applied(r) => Verified(reqs[r].request.account_number)

\* a verification that has decided to grant, or has granted
Granting(r) ==
    /\ reqs[r].route = "verify"
    /\ \/ reqs[r].pc = "log" /\ reqs[r].locals.response.success
       \/ reqs[r].pc = "done" /\ reqs[r].response.success

\* C19 (grant only on a live match): verify_user answers success=true only if,
\* on the frames of that request, check_liveness said is_live, create_template
\* gave a template and match_templates of the stored blob it read against that
\* template said match; then the request has at least 3 frames and the stored
\* blob decrypts.  A granted request answers match=true with status 200.
VerifyGrantsOnlyOnLiveMatch ==
    \A r \in ReqIds :
        Granting(r) =>
            LET these == reqs[r].request.frames
                stored == reqs[r].locals.bio_template.template_blob
            IN  /\ Len(these) >= 3
                /\ check_liveness(these).result.is_live
                /\ create_template(these) # None
                /\ match_templates(key_hash, stored, create_template(these).template,
                                   DEFAULT_THRESHOLD).match
                /\ decrypt_template(key_hash, stored) # None
                /\ reqs[r].locals.bio_template.account_number
                      = reqs[r].request.account_number
                /\ reqs[r].pc = "done" =>
                      reqs[r].response.match /\ reqs[r].response.status_code = 200

\* a verification was granted on three live frames of the enrolled eye
VerifyGrantsOnlyOnLiveMatchWitness ==
    \E r \in ReqIds :
        /\ reqs[r].route = "verify" /\ reqs[r].pc = "done"
        /\ reqs[r].response.success
        /\ reqs[r].request.frames = LiveBatch(EYE_1)
        /\ Verified("1001")

\* a live capture of the enrolled eye was denied because the stored blob it
\* read does not decrypt
VerifyDenialWitness ==
    \E r, q \in ReqIds :
        /\ reqs[r].route = "verify" /\ reqs[r].pc = "done"
        /\ reqs[r].locals # None /\ "bio_template" \in DOMAIN reqs[r].locals
        /\ decrypt_template(key_hash, reqs[r].locals.bio_template.template_blob) = None
        /\ reqs[r].request.frames = LiveBatch(EYE_1)
        /\ ~reqs[r].response.success
        /\ reqs[q].route = "enroll" /\ reqs[q].request.frames = LiveBatch(EYE_1)

----------------------------------------------------------------------------
(* Properties of match_templates on templates made by create_template *)

MatchResultFields == {"match", "confidence", "distance", "similarity"}
FailureFields == {"match", "confidence", "error"}

\* both templates came from create_template, which returned a template
BothFused ==
    /\ op = "match_templates"
    /\ earlier.op = "create_template" /\ earlier.ret # None
    /\ m_a # None /\ m_b # None

InUnitInterval(x) == ~x.nan /\ 0 <= x.v /\ x.v <= SCALE

\* C18 as claimed: every result of match_templates has the verdict, the
\* confidence, the normalized distance and the raw similarity, and for two
\* templates from create_template the confidence is in [0, 1].
AllFieldsPopulated ==
    op = "match_templates" =>
        /\ MatchResultFields \subseteq DOMAIN ret
        /\ BothFused /\ Decoded(m_a) # None => InUnitInterval(ret.confidence)

\* C18: every result of match_templates has a boolean verdict and a
\* confidence; a result of a comparison has the normalized distance and the
\* raw similarity too, a failure has an error string in their place, verdict
\* false and confidence 0.0; for two templates from create_template that reach
\* the comparison the confidence is in [0, 1].
ResultFieldsPopulated ==
    op = "match_templates" =>
        /\ {"match", "confidence"} \subseteq DOMAIN ret
        /\ ret.match \in BOOLEAN
        /\ IF HasError(ret)
           THEN /\ DOMAIN ret = FailureFields
                /\ ~ret.match /\ ret.confidence = F(0)
           ELSE /\ DOMAIN ret = MatchResultFields
        /\ BothFused /\ Decoded(m_a) # None =>
              /\ ~HasError(ret)
              /\ InUnitInterval(ret.confidence)
              /\ InUnitInterval(ret.similarity)
              /\ InUnitInterval(ret.distance)

\* two fused templates of different eyes compared (confidence below one half),
\* the stored one passed in encrypted form
ResultFieldsPopulatedWitness ==
    /\ BothFused
    /\ m_a.tag = "str" /\ Decoded(m_a) # None
    /\ ~HasError(ret)
    /\ ~ret.match
    /\ ret.confidence.v * 2 < SCALE

----------------------------------------------------------------------------
(* Properties of detect_iris_region *)

Detected == patch # None

\* C16 (patch invariant): detect_iris_region returns None or a patch of
\* exactly 128x128; with no circle found the patch is the rows from h/4 up to
\* 3h/4 and the columns from w/4 up to 3w/4, resized; it returns None only if
\* that centre crop is empty, and never for an image of 2 or more rows and
\* 2 or more columns.
PatchInvariant ==
    Detected =>
        LET returned == patch.returned IN
        /\ returned # None => returned.rows = 128 /\ returned.cols = 128
        /\ (image.circles = None /\ returned # None) =>
              /\ returned.from = "center"
              /\ 4 * returned.box.y1 <= image.h /\ image.h < 4 * (returned.box.y1 + 1)
              /\ 4 * returned.box.y2 <= 3 * image.h
              /\ 3 * image.h < 4 * (returned.box.y2 + 1)
              /\ 4 * returned.box.x1 <= image.w /\ image.w < 4 * (returned.box.x1 + 1)
              /\ 4 * returned.box.x2 <= 3 * image.w
              /\ 3 * image.w < 4 * (returned.box.x2 + 1)
              /\ returned.box.y1 < returned.box.y2 /\ returned.box.x1 < returned.box.x2
        /\ returned = None => image.h < 2 \/ image.w < 2
        /\ (image.h >= 2 /\ image.w >= 2) => returned # None

\* the smallest image that gives a patch, and it has no circle
PatchInvariantWitness ==
    /\ Detected
    /\ image.h = 2 /\ image.w = 2 /\ image.circles = None
    /\ patch.returned # None
    /\ patch.returned.box = [x1 |-> 0, y1 |-> 0, x2 |-> 1, y2 |-> 1]

\* C20 (circle crop clipping): when a circle centred inside the image is
\* found, the crop is the box [max(0, x-r'), min(w, x+r')) x [max(0, y-r'),
\* min(h, y+r')) with r' = floor(1.3 r); it lies within the image and is not
\* empty, also when x < r' or y < r'.
CircleCropClipped ==
    (Detected /\ image.circles # None) =>
        LET x == image.circles.data[1]
            y == image.circles.data[2]
            r == (13 * image.circles.data[3]) \div 10
            returned == patch.returned
        IN  /\ returned # None /\ returned.from = "circle"
            /\ returned.box.x1 = (IF x < r THEN 0 ELSE x - r)
            /\ returned.box.y1 = (IF y < r THEN 0 ELSE y - r)
            /\ returned.box.x2 = (IF x + r > image.w THEN image.w ELSE x + r)
            /\ returned.box.y2 = (IF y + r > image.h THEN image.h ELSE y + r)
            /\ 0 <= returned.box.x1 /\ returned.box.x1 < returned.box.x2
            /\ returned.box.x2 <= image.w
            /\ 0 <= returned.box.y1 /\ returned.box.y1 < returned.box.y2
            /\ returned.box.y2 <= image.h

----------------------------------------------------------------------------
(* Properties of extract_features *)

\* the claim's epsilon, in units of the 1e-7 of the normalization: 1e-6
EPSILON_IN_1E7 == 10

\* the norm of vector / (over + 1e-7) is within epsilon of 1.0.  The two
\* norms are whole numbers of units 1/SCALE, and a unit is far more than
\* epsilon: the quotient's norm n / (over + 1e-7) is within epsilon of 1.0 iff
\* n = over and 1e-7 <= epsilon * (n + 1e-7), which n >= 1e-7 / epsilon gives.
NormWithinEpsilon(q) ==
    /\ linalg_norm(q.vector) = q.over
    /\ EPSILON_IN_1E7 * q.over >= SCALE

\* C17 (normalization): every feature vector extract_features returns for a
\* non-empty patch has Euclidean norm within epsilon of 1.0; for an empty
\* patch or none it returns None.
FeatureVectorNormalized ==
    feature_vector # None =>
        /\ (feature_vector.returned = None) <=> (measured = None \/ measured.size = 0)
        /\ feature_vector.returned # None => NormWithinEpsilon(feature_vector.returned)

\* a nearly black patch with its LBP codes spread over the ten uniform codes
\* and nothing else to measure: the norm before normalization is small
FeatureVectorNormalizedWitness ==
    /\ feature_vector # None
    /\ feature_vector.returned # None
    /\ measured.lbp = LbpCounts(0, 9)
    /\ measured.stats[5] <= SCALE
    /\ measured.hog = Constant(HOG_LEN, 0)
    /\ measured.gabor = Constant(8, 0)
    /\ feature_vector.returned.over < 2 * SCALE

----------------------------------------------------------------------------
(* Properties of the fallback routes *)

FallbackDone(r) == reqs[r].route = "fallback" /\ reqs[r].pc = "done"

\* C21 (fallback PIN consistency): a fallback_verify that found a user record
\* answers 200 with success and match exactly when the PIN sent is the one
\* get_fallback_pin returns for the account, and with success false for every
\* other PIN; one that found no user record is rejected with 404.  Every PIN
\* a GET /fallback/pin request was answered with is the one accepted.
FallbackPinConsistency ==
    \A r \in ReqIds :
        /\ FallbackDone(r) =>
            LET user == reqs[r].locals.user
                pin == get_fallback_pin(reqs[r].request.account_number).demo_pin
                response == reqs[r].response
            IN  IF user = None THEN response.status_code = 404
                ELSE IF reqs[r].request.fingerprint_pin = pin
                THEN response.status_code = 200 /\ response.success /\ response.match
                ELSE response.status_code = 200 /\ ~response.success
        /\ reqs[r].route = "fallback_pin" =>
            /\ reqs[r].response.status_code = 200
            /\ reqs[r].response.demo_pin = expected_pin(reqs[r].request.account_number)

\* an enrolled account's PIN was accepted
FallbackPinConsistencyWitness ==
    \E r \in ReqIds :
        /\ FallbackDone(r)
        /\ reqs[r].locals.user # None
        /\ reqs[r].request.fingerprint_pin
             = get_fallback_pin(reqs[r].request.account_number).demo_pin
        /\ reqs[r].response.success

----------------------------------------------------------------------------
(* Properties of match_templates on full-length templates *)

\* C22 (the default rule can reject): there are two templates of the kind
\* create_template produces (109 elements, none negative, norm at most 1) for
\* which match_templates with the default threshold returns match = false.
DefaultRuleCanReject ==
    \E a, b \in FullTemplates :
        ~match_templates(key_hash, Arr(a), Arr(b), DEFAULT_THRESHOLD).match

\* every call on two such templates returned match = true, with a normalized
\* distance no more than sqrt(2) / sqrt(109)
DefaultRuleAlwaysAccepts ==
    (op = "match_templates" /\ Len(m_a.data) = TEMPLATE_LEN) =>
        /\ ret.match
        /\ ret.distance.v * ret.distance.v * TEMPLATE_LEN <= 2 * SCALE * SCALE

----------------------------------------------------------------------------
(* Properties of create_transaction *)

Accepted(r) ==
    /\ reqs[r].route = "transaction"
    /\ reqs[r].pc = "done"
    /\ reqs[r].response.status_code = 200

\* what an accepted request adds to the balance: a check adds nothing
BalanceChange(r) ==
    IF ~Accepted(r) THEN F(0)
    ELSE IF reqs[r].request.type = "deposit" THEN reqs[r].request.amount
    ELSE IF reqs[r].request.type = "withdraw" THEN FSub(F(0), reqs[r].request.amount)
    ELSE F(0)

RECURSIVE BalanceChanges(_)
BalanceChanges(n) == IF n = 0 THEN F(0) ELSE FAdd(BalanceChanges(n - 1), BalanceChange(n))

\* C23 (balance conservation under concurrency): once the transaction
\* requests on an account have all completed, in whatever interleaving, its
\* stored balance is the starting balance plus the accepted deposits minus
\* the accepted withdrawals; an accepted check adds nothing and so undoes
\* nothing another request wrote.
BalanceConserved ==
    (users # <<>> /\ InFlight = {}) =>
        LET expected == FAdd(F(INITIAL_BALANCE), BalanceChanges(MaxRequests))
        IN  ~expected.nan /\ users[1].balance = expected

\* a request create_transaction is to reject whatever the account holds
ToReject(request) ==
    \/ request.type \in {"withdraw", "deposit"} /\ FLe(request.amount, F(0))
    \/ request.type \notin {"withdraw", "deposit", "check"}
    \/ request.account_number # "1001"

\* the requests that got as far as recording a transaction
Recorded == {r \in ReqIds : reqs[r].route = "transaction" /\ (reqs[r].pc = "log" \/ Accepted(r))}

\* C24 (no negative balance): in every reachable state every stored balance
\* is >= 0; a withdraw or deposit with amount <= 0, an unknown type and an
\* unknown account are rejected, a withdraw is accepted only within the
\* balance it read, and the rejected requests have recorded no transaction.
BalanceNeverNegative ==
    /\ \A i \in 1..Len(users) : FLe(F(0), users[i].balance)
    /\ \A r \in ReqIds :
        (reqs[r].route = "transaction" /\ reqs[r].pc = "done" /\ ToReject(reqs[r].request))
            => reqs[r].response.status_code \in {400, 404}
    /\ \A r \in ReqIds :
        (Accepted(r) /\ reqs[r].request.type = "withdraw")
            => FLe(reqs[r].request.amount, reqs[r].locals.user.balance)
    /\ Len(transactions) = Cardinality(Recorded)

----------------------------------------------------------------------------
(* Properties of enroll_user's writes *)

\* the records an enroll request wrote
Wrote(r, collection, field) ==
    \E i \in 1..Len(collection) : collection[i][field] = r

\* C25 (enrollment is all-or-nothing): once the enroll requests have
\* completed, with success, a rejection or a failed write, each account
\* number has both a user record and a template record or neither, and a
\* rejected request has written no user and no template.
EnrollAllOrNothing ==
    /\ InFlight = {} =>
        \A a \in AccountNumbers : (Count(users, a) > 0) <=> (Count(biometrics, a) > 0)
    /\ \A r \in ReqIds :
        (reqs[r].route = "enroll" /\ reqs[r].pc = "done"
            /\ reqs[r].response.status_code = 400)
            => ~Wrote(r, users, "id") /\ ~Wrote(r, biometrics, "user_id")

----------------------------------------------------------------------------
(* Integrity of the envelope *)

\* C26 (envelope integrity): decrypt_template, on the same engine, of a blob
\* encrypt_template produced and that was then changed in an IV byte or a
\* ciphertext byte, returns None or the original template, never another
\* template.
EnvelopeIntegrity ==
    (op = "decrypt_template" /\ origin.by = "self" /\ origin.edit = "corrupt") =>
        \/ ret = None
        \/ ret = Arr(origin.template)

====
